---- MODULE Spec2Model ----
(***************************************************************************)
(* A model of the CPPN genome of cppn_neat (src/cppn.py, src/graph_util.py):*)
(* the node and connection genomes, the layering pass, the structural and  *)
(* numeric mutation operators, crossover and forward evaluation.           *)
(*                                                                         *)
(* Numbers.  Weights are integers in -max_weight..max_weight.  Coordinates *)
(* and node outputs are fixed-point numbers in units of 1/One = 1/12, so   *)
(* that the grid coordinates linspace(-.5, .5, n) are integers in -6..6    *)
(* for n in 1..5.  The activations of the model are homogeneous, so the    *)
(* unit carries through an evaluation unchanged.                           *)
(***************************************************************************)
EXTENDS Integers, Sequences, FiniteSets, TLC

VARIABLES config,            \* the configuration shared by the genomes of the run
          population,        \* the slots that hold a live genome
          node_genome,       \* slot -> (node id -> Node)
          connection_genome, \* slot -> ((from, to) -> Connection)
          fitness,           \* slot -> fitness
          outputs,           \* slot -> (node id -> <<>> (None) or <<value>>)
          node_indexer,      \* CPPN.node_indexer: <<>> (None) or <<next id>>
          last_op,           \* the operation that produced this state
          budget,            \* operations this run may still apply
          image,             \* slot -> << >> (None) or <<the cached image>>
          pixel_inputs,      \* CPPN.pixel_inputs: << >> (None) or <<tensor>>
          Node_current_id,   \* Node.current_id: << >> (not set) or <<value>>
          files,             \* the JSON documents written so far
          threads            \* thread -> its position in get_new_node_id

vars == <<config, population, node_genome, connection_genome, fitness, outputs,
          node_indexer, last_op, budget, image, pixel_inputs, Node_current_id,
          files, threads>>

\* the state that the operations on one genome leave alone
elsewhere == <<pixel_inputs, Node_current_id, files, threads>>

----------------------------------------------------------------------------
(* Bounds of the model *)

\* operations applied to the population (Spec)
MaxSteps == 2

\* structural mutations applied to one genome (SpecGenome)
MaxDepth == 5

\* operations applied to one genome under evaluation (SpecEval)
MaxEval == 4

\* largest image height and width (at most 5, see Linspace)
MaxRes == 2

\* the number of operations in a behaviour of SpecDistance
MaxDist == 3

\* the number of operations in a behaviour of SpecImage
MaxImage == 3

\* the number of operations in a behaviour of SpecIds
MaxIds == 5

\* the number of JSON documents written
MaxFiles == 1

\* the number of operations in a behaviour of SpecJson
MaxJson == 4

\* the number of operations in a behaviour of SpecInputs
MaxInputs == 4

\* the number of steps of the two threads in a behaviour of SpecThreads
MaxThreadSteps == 10

\* the number of calls in a run of the layering alone
MaxLayering == 2

\* the number of connections of a genome given to the constructor
MaxEdges == 3

\* the budget of a run of disable_connection and mutate(rates)
MaxRates == 3

\* the number of operations on a genome and its clone
MaxInert == 6

Slots == {1, 2, 3}

Threads == {1, 2}

----------------------------------------------------------------------------
(* Configuration and constants of the program *)

INPUT == 0
OUTPUT == 1
HIDDEN == 2

Sentinel == 999

Attempts == 20

max_weight == 1

weight_mutation_max == 1

allow_recurrent == FALSE

\* self.n_inputs with use_radial_distance and use_input_bias off at construction
n_inputs == 2

InputIds == {-1, -2}

OutputIds == {-3}

\* the activation registry
Activations == {"identity", "abs"}

\* one, in the fixed-point unit of coordinates and node outputs
One == 12

RandomWeights == (0 - max_weight)..max_weight

----------------------------------------------------------------------------
(* Dictionaries *)

Put(f, k, v) == [x \in (DOMAIN f) \cup {k} |-> IF x = k THEN v ELSE f[x]]

Drop(f, K) == [x \in (DOMAIN f) \ K |-> f[x]]

EmptyDict == << >>

Max(S) == CHOOSE x \in S : \A y \in S : y <= x

----------------------------------------------------------------------------
(* Genes *)

\* A gene is a Python object held by reference in a genome's dictionary.  obj
\* is the identity of the object: the slot of the genome that created it (its
\* key is the dictionary key).  Two dictionary entries with the same key and
\* the same obj are the same object, and an attribute written through one is
\* seen through the other.
Node(activation, type, layer, obj) ==
    [activation |-> activation, type |-> type, layer |-> layer, obj |-> obj]

Connection(weight, enabled, obj) ==
    [weight |-> weight, enabled |-> enabled, is_recurrent |-> FALSE, obj |-> obj]

input_nodes(nodes) == {n \in DOMAIN nodes : nodes[n].type = INPUT}

output_nodes(nodes) == {n \in DOMAIN nodes : nodes[n].type = OUTPUT}

hidden_nodes_or_outputs(nodes) == {n \in DOMAIN nodes : nodes[n].type # INPUT}

hidden_nodes(nodes) == {n \in DOMAIN nodes : nodes[n].type = HIDDEN}

enabled_connections(cxs) == {k \in DOMAIN cxs : cxs[k].enabled}

----------------------------------------------------------------------------
(* Topology: validity of an edge and the layering pass *)

is_valid_connection(nodes, key) ==
    IF nodes[key[1]].layer = nodes[key[2]].layer THEN FALSE
    ELSE IF ~allow_recurrent /\ nodes[key[1]].layer > nodes[key[2]].layer THEN FALSE
    ELSE TRUE

RECURSIVE required_loop(_, _, _, _)
required_loop(inputs, connections, required, s) ==
    LET t == {k[1] : k \in {c \in connections : c[2] \in s /\ c[1] \notin s}}
        layer_nodes == t \ inputs
    IN  IF t = {} \/ layer_nodes = {} THEN required
        ELSE required_loop(inputs, connections, required \cup layer_nodes, s \cup t)

required_for_output(inputs, outs, connections) ==
    required_loop(inputs, connections, outs, outs)

get_candidate_nodes(s, connections) ==
    {k[2] : k \in {c \in connections : c[1] \in s /\ c[2] \notin s}}

RECURSIVE layers_loop(_, _, _, _)
layers_loop(connections, required, layers, s) ==
    LET c == get_candidate_nodes(s, connections)
        t == {n \in c : n \in required
                        /\ \A k \in connections : k[2] = n => k[1] \in s}
    IN  IF t = {} THEN layers
        ELSE layers_loop(connections, required, Append(layers, t), s \cup t)

get_ids_connections(cxs) == DOMAIN cxs

feed_forward_layers(nodes, cxs) ==
    LET inputs == input_nodes(nodes)
        outs == output_nodes(nodes)
        connections == get_ids_connections(cxs)
        required == required_for_output(inputs, outs, connections)
    IN  layers_loop(connections, required, << >>, inputs)

\* the iterations of the loop of required_for_output, from the set s, until
\* it returns; counted up to fuel, and fuel + 1 when it has not returned then
RECURSIVE required_iterations_unconsumed(_, _, _, _)
required_iterations_unconsumed(inputs, connections, s, fuel) ==
    LET t == {k[1] : k \in {c \in connections : c[2] \in s /\ c[1] \notin s}}
        layer_nodes == t \ inputs
    IN  IF fuel = 0 \/ t = {} THEN 1
        ELSE 1 + required_iterations_unconsumed(inputs, connections,
                                                s \cup layer_nodes, fuel - 1)

RECURSIVE required_iterations(_, _, _, _)
required_iterations(inputs, connections, s, fuel) ==
    LET t == {k[1] : k \in {c \in connections : c[2] \in s /\ c[1] \notin s}}
        layer_nodes == t \ inputs
    IN  IF fuel = 0 \/ t = {} \/ layer_nodes = {} THEN 1
        ELSE 1 + required_iterations(inputs, connections, s \cup t, fuel - 1)

\* the same for the loop of feed_forward_layers
RECURSIVE layers_iterations(_, _, _, _)
layers_iterations(connections, required, s, fuel) ==
    LET c == get_candidate_nodes(s, connections)
        t == {n \in c : n \in required
                        /\ \A k \in connections : k[2] = n => k[1] \in s}
    IN  IF fuel = 0 \/ t = {} THEN 1
        ELSE 1 + layers_iterations(connections, required, s \cup t, fuel - 1)

LayerIndexOf(layers, n) == CHOOSE i \in 1..Len(layers) : n \in layers[i]

Layered(layers) == UNION {layers[i] : i \in 1..Len(layers)}

update_node_layers_relative(nodes, cxs) ==
    LET layers == feed_forward_layers(nodes, cxs)
    IN  [n \in DOMAIN nodes |->
            IF n \in Layered(layers)
            THEN [nodes[n] EXCEPT !.layer = LayerIndexOf(layers, n)]
            ELSE IF nodes[n].type = INPUT THEN [nodes[n] EXCEPT !.layer = 0]
            ELSE [nodes[n] EXCEPT !.layer = @ + 1]]

update_node_layers(nodes, cxs) ==
    LET layers == feed_forward_layers(nodes, cxs)
    IN  [n \in DOMAIN nodes |->
            IF n \in Layered(layers)
            THEN [nodes[n] EXCEPT !.layer = LayerIndexOf(layers, n)]
            ELSE IF nodes[n].type = INPUT THEN [nodes[n] EXCEPT !.layer = 0]
            ELSE nodes[n]]

----------------------------------------------------------------------------
(* Evaluation.  A tensor is a function from its index set to fixed-point  *)
(* values: a tensor of shape (1) has the one index <<0, 0>>, a tensor of    *)
(* shape (res_h, res_w) the indices <<row, column>>.  A node's outputs are  *)
(* << >> (None) or <<tensor>>.                                              *)

Scalar(x) == [p \in {<<0, 0>>} |-> x]

Pixels(res_h, res_w) == (0..(res_h - 1)) \X (0..(res_w - 1))

Full(res_h, res_w, x) == [p \in Pixels(res_h, res_w) |-> x]

\* a + b, a tensor of shape (1) broadcast to the shape of the other
TensorAdd(a, b) ==
    IF DOMAIN a = DOMAIN b THEN [p \in DOMAIN a |-> a[p] + b[p]]
    ELSE IF DOMAIN a = {<<0, 0>>} THEN [p \in DOMAIN b |-> a[<<0, 0>>] + b[p]]
    ELSE [p \in DOMAIN a |-> a[p] + b[<<0, 0>>]]

\* torch.linspace(-.5, .5, n), indexed from 0, in units of 1/One
Linspace(n) ==
    [i \in 0..(n - 1) |->
        IF n = 1 THEN 0 - (One \div 2) ELSE ((i * One) \div (n - 1)) - (One \div 2)]

\* the activation function named fn applied to tensor t
activation(fn, t) ==
    [p \in DOMAIN t |-> IF fn = "abs" /\ t[p] < 0 THEN 0 - t[p] ELSE t[p]]

\* the position of input node n among input_nodes()
input_index(n) == (0 - n) - 1

get_incoming_connections(cxs, n) == {k \in enabled_connections(cxs) : k[2] = n}

\* Node.activate: the weighted outputs of the sources added to sum_inputs
RECURSIVE sum_of_inputs(_, _, _, _)
sum_of_inputs(sum_inputs, incoming_connections, cxs, out) ==
    IF incoming_connections = {} THEN sum_inputs
    ELSE LET cx == CHOOSE k \in incoming_connections : TRUE
             inputs == [p \in DOMAIN out[cx[1]][1] |->
                           out[cx[1]][1][p] * cxs[cx].weight]
         IN  sum_of_inputs(TensorAdd(sum_inputs, inputs),
                           incoming_connections \ {cx}, cxs, out)

\* the loop over the layers of feed_forward and get_image_data_parallel;
\* sums[n] is the sum node n starts from, r.raised tells that a source without
\* outputs (None) was multiplied
RECURSIVE activate_layers(_, _, _, _, _)
activate_layers(nodes, cxs, layers, sums, r) ==
    IF layers = << >> \/ r.raised THEN r
    ELSE LET layer == Head(layers)
             none == \E n \in layer : \E k \in get_incoming_connections(cxs, n) :
                         r.outputs[k[1]] = << >>
         IN  activate_layers(nodes, cxs, Tail(layers), sums,
                 IF none THEN [r EXCEPT !.raised = TRUE]
                 ELSE [r EXCEPT !.outputs =
                         [n \in DOMAIN r.outputs |->
                             IF n \in layer
                             THEN <<activation(nodes[n].activation,
                                       sum_of_inputs(sums[n],
                                           get_incoming_connections(cxs, n),
                                           cxs, r.outputs))>>
                             ELSE r.outputs[n]]])

\* the pass over the layers and torch.stack of the output nodes' outputs,
\* which raises when an output node has none
layers_pass(nodes, cxs, sums, out) ==
    LET layers == <<input_nodes(nodes)>> \o feed_forward_layers(nodes, cxs)
        r == activate_layers(nodes, cxs, layers, sums,
                             [outputs |-> out, raised |-> FALSE])
    IN  [r EXCEPT !.raised =
            r.raised \/ \E o \in output_nodes(nodes) : r.outputs[o] = << >>]

\* set_inputs: input node i of input_nodes() takes inputs[i + 1]
set_inputs(nodes, out, inputs) ==
    [n \in DOMAIN out |->
        IF nodes[n].type = INPUT
        THEN <<activation(nodes[n].activation, Scalar(inputs[input_index(n) + 1]))>>
        ELSE out[n]]

\* feed_forward after set_inputs(inputs)
feed_forward(nodes, cxs, out, inputs) ==
    layers_pass(nodes, cxs,
                [n \in DOMAIN nodes |->
                    IF nodes[n].type = INPUT THEN Scalar(inputs[input_index(n) + 1])
                    ELSE Scalar(0)],
                out)

\* eval(inputs): the node outputs it leaves, and whether it raises; when it
\* does not, it returns the outputs of the output nodes
eval(nodes, cxs, out, inputs) ==
    feed_forward(nodes, cxs, set_inputs(nodes, out, inputs), inputs)

\* initialize_inputs (use_radial_dist off): CPPN.pixel_inputs is first set to
\* zeros of shape (res_h, res_w, n), then filled pixel by pixel with
\* [y, x] or [y, x, 1.0]; the first assignment raises when the pixel has not
\* n features, leaving the zeros.  `use_bias` records the argument the
\* tensor was generated with.
initialize_inputs(res_h, res_w, use_bias, n) ==
    LET x_vals == Linspace(res_w)
        y_vals == Linspace(res_h)
        this_pixel(p) == IF use_bias THEN <<y_vals[p[1]], x_vals[p[2]], One>>
                         ELSE <<y_vals[p[1]], x_vals[p[2]]>>
        fits == n = (IF use_bias THEN 3 ELSE 2)
    IN  [tensor |-> [shape |-> <<res_h, res_w, n>>,
                     at |-> [p \in Pixels(res_h, res_w) |->
                                IF fits THEN this_pixel(p) ELSE [i \in 1..n |-> 0]],
                     use_bias |-> use_bias],
         raised |-> ~fits]

\* the head of get_image_data_parallel: the tensor it goes on with, generated
\* anew when there is none or its height or width is not the configured one
cached_inputs(pi, cfg) ==
    IF \/ pi = << >>
       \/ pi[1].shape[1] # cfg.res_h
       \/ pi[1].shape[2] # cfg.res_w
    THEN initialize_inputs(cfg.res_h, cfg.res_w, cfg.use_input_bias, n_inputs)
    ELSE [tensor |-> pi[1], raised |-> FALSE]

reset_activations(nodes, res_h, res_w) ==
    [n \in DOMAIN nodes |-> <<Full(res_h, res_w, One \div 2)>>]

\* get_image_data_parallel: the node outputs it leaves, and whether it raises;
\* when it does not, the image is the outputs of the output node
get_image_data_parallel(nodes, cxs, tensor, res_h, res_w) ==
    layers_pass(nodes, cxs,
                [n \in DOMAIN nodes |->
                    IF nodes[n].type = INPUT
                    THEN [p \in Pixels(res_h, res_w) |->
                             tensor.at[p][input_index(n) + 1]]
                    ELSE Full(res_h, res_w, 0)],
                reset_activations(nodes, res_h, res_w))

\* the coordinates get_image_data_serial passes to eval, in the order of its
\* loops: x over the columns outside, y over the rows inside
serial_inputs(res_h, res_w) ==
    [i \in 1..(res_w * res_h) |->
        <<Linspace(res_w)[(i - 1) \div res_h], Linspace(res_h)[(i - 1) % res_h]>>]

\* the calls of eval made by get_image_data_serial from call i on; r is the
\* result of the calls before, `returned` the values they returned
RECURSIVE serial_loop(_, _, _, _, _, _)
serial_loop(nodes, cxs, coords, i, r, returned) ==
    IF i > Len(coords) \/ r.raised
    THEN [outputs |-> r.outputs, raised |-> r.raised, pixels |-> returned]
    ELSE LET e == eval(nodes, cxs, r.outputs, coords[i])
         IN  serial_loop(nodes, cxs, coords, i + 1, e,
                 IF e.raised THEN returned
                 ELSE Append(returned,
                             [o \in output_nodes(nodes) |-> e.outputs[o][1]]))

\* get_image_data_serial up to its reshape
get_image_data_serial(nodes, cxs, out, res_h, res_w) ==
    serial_loop(nodes, cxs, serial_inputs(res_h, res_w), 1,
                [outputs |-> out, raised |-> FALSE], << >>)

----------------------------------------------------------------------------
(* Construction *)

\* CPPN.__init__ with hidden_nodes_at_start = 0 and init_connection_probability
\* = 1.0: the inputs (identity, layer 0), the outputs (layer 2) and one enabled
\* connection from every input to every output.  `weights` maps each initial
\* connection to its random weight and `out_fn` each output to its activation.
initialize_node_genome_layered(out_fn, g) ==
    [n \in InputIds \cup OutputIds |->
        IF n \in InputIds THEN Node("identity", INPUT, 0, g)
        ELSE Node(out_fn[n], OUTPUT, 1, g)]

initialize_node_genome(out_fn, g) ==
    [n \in InputIds \cup OutputIds |->
        IF n \in InputIds THEN Node("identity", INPUT, 0, g)
        ELSE Node(out_fn[n], OUTPUT, 2, g)]

initialize_connection_genome(weights, g) ==
    [k \in InputIds \X OutputIds |-> Connection(weights[k], TRUE, g)]

NoOutputs(nodes) == [n \in DOMAIN nodes |-> << >>]

\* get_new_node_id: <<the id returned, the indexer afterwards>>
get_new_node_id(nodes, indexer) ==
    IF indexer = << >>
    THEN IF DOMAIN nodes = {} THEN <<0, << >> >>
         ELSE <<Max(DOMAIN nodes) + 1, <<Max(DOMAIN nodes) + 2>> >>
    ELSE <<indexer[1], <<indexer[1] + 1>> >>

----------------------------------------------------------------------------
(* Mutation operators, as functions from a genome to the resulting genome *)

Genome(nodes, cxs) == [nodes |-> nodes, cxs |-> cxs]

\* add_node, splitting old_connection with a new node new_id of activation fn
split_connection(nodes, cxs, old_connection, new_id, fn, g) ==
    LET nodes1 == Put(nodes, new_id, Node(fn, HIDDEN, Sentinel, g))
        cxs1 == [cxs EXCEPT ![old_connection].enabled = FALSE]
        cxs2 == Put(cxs1, <<old_connection[1], new_id>>, Connection(1, TRUE, g))
        cxs3 == Put(cxs2, <<new_id, old_connection[2]>>,
                    Connection(cxs[old_connection].weight, TRUE, g))
    IN  Genome(update_node_layers(nodes1, cxs3), cxs3)

eligible_cxs(cxs) == {k \in DOMAIN cxs : ~cxs[k].is_recurrent}

disable_invalid_connections(nodes, cxs) == cxs

\* remove_node forgetting the connections that end at the removed node
delete_node_keeping_incoming(nodes, cxs, node_id_to_remove) ==
    LET cxs1 == Drop(cxs, {k \in DOMAIN cxs : k[1] = node_id_to_remove})
        nodes1 == Drop(nodes, {node_id_to_remove})
    IN  Genome(nodes1, cxs1)

\* remove_node, removing the hidden node node_id_to_remove
delete_node(nodes, cxs, node_id_to_remove) ==
    LET cxs1 == Drop(cxs, {k \in DOMAIN cxs :
                              k[1] = node_id_to_remove \/ k[2] = node_id_to_remove})
        nodes1 == Drop(nodes, {node_id_to_remove})
        nodes2 == update_node_layers(nodes1, cxs1)
    IN  Genome(nodes2, disable_invalid_connections(nodes2, cxs1))

\* add_connection: the genomes the loop of at most n attempts can end with.
\* stops: the results of an attempt that ends the loop; can_fail: some sampled
\* pair fails and leads to the next attempt.
RECURSIVE add_connection_tries(_, _, _, _)
add_connection_tries(n, stops, can_fail, unchanged) ==
    IF n = 0 THEN {unchanged}
    ELSE stops \cup (IF can_fail
                     THEN add_connection_tries(n - 1, stops, can_fail, unchanged)
                     ELSE {})

----------------------------------------------------------------------------
(* Genetic difference *)

\* the order of Python on connection keys, tuples of two node ids
KeyLess(a, b) == a[1] < b[1] \/ (a[1] = b[1] /\ a[2] < b[2])

\* other_innovation[-1]: the last of the keys sorted ascending
LastKey(K) == CHOOSE k \in K : \A x \in K \ {k} : KeyLess(x, k)

get_disjoint_connections_unfiltered(this_cxs, other_innovation) ==
    IF this_cxs = {} \/ other_innovation = {} THEN {}
    ELSE {k \in this_cxs : KeyLess(k, LastKey(other_innovation))}

get_disjoint_connections(this_cxs, other_innovation) ==
    IF this_cxs = {} \/ other_innovation = {} THEN {}
    ELSE {k \in this_cxs : /\ k \notin other_innovation
                           /\ KeyLess(k, LastKey(other_innovation))}

get_excess_connections(this_cxs, other_innovation) ==
    IF this_cxs = {} \/ other_innovation = {} THEN {}
    ELSE {k \in this_cxs : /\ k \notin other_innovation
                           /\ KeyLess(LastKey(other_innovation), k)}

\* the keys of the two sorted lists of matching connections, which are equal
get_matching_connections(cxs_1, cxs_2) == cxs_1 \cap cxs_2

Abs(x) == IF x < 0 THEN 0 - x ELSE x

RECURSIVE SumOver(_, _)
SumOver(K, f) ==
    IF K = {} THEN 0
    ELSE LET k == CHOOSE x \in K : TRUE IN f[k] + SumOver(K \ {k}, f)

\* node_genome.values(): the nodes in the order of their insertion, which is
\* inputs, outputs, then hidden nodes by ascending id
values(nodes) ==
    LET ids == DOMAIN nodes
        rank(n) == IF n < 0 THEN 0 - n ELSE n_inputs + 2 + n
    IN  [i \in 1..Cardinality(ids) |->
            nodes[CHOOSE n \in ids :
                     Cardinality({m \in ids : rank(m) < rank(n)}) = i - 1]]

Min(a, b) == IF a < b THEN a ELSE b

\* genetic_difference of the genome (nodes, cxs) from (other_nodes, other_cxs),
\* as the exact fraction num / den: excess / N + disjoint / N
\* + .4 * mean of the differences of matching weights + differing functions
genetic_difference(nodes, cxs, other_nodes, other_cxs) ==
    LET this_cxs == enabled_connections(cxs)
        other_innovation == enabled_connections(other_cxs)
        N == IF Cardinality(this_cxs) > Cardinality(other_innovation)
             THEN Cardinality(this_cxs) ELSE Cardinality(other_innovation)
        n_excess == Cardinality(get_excess_connections(this_cxs, other_innovation))
        n_disjoint == Cardinality(get_disjoint_connections(this_cxs, other_innovation))
        matching == get_matching_connections(this_cxs, other_innovation)
        difference_of_matching_weights ==
            SumOver(matching, [k \in matching |->
                                  Abs(other_cxs[k].weight - cxs[k].weight)])
        zipped == 1..Min(Len(values(nodes)), Len(values(other_nodes)))
        n_different_fns ==
            Cardinality({i \in zipped : values(nodes)[i].activation
                                            # values(other_nodes)[i].activation})
        Nd == IF N > 0 THEN N ELSE 1
        Md == IF matching = {} THEN 1 ELSE Cardinality(matching)
    IN  [num |-> (n_excess + n_disjoint) * 5 * Md
                 + 2 * difference_of_matching_weights * Nd
                 + n_different_fns * 5 * Nd * Md,
         den |-> 5 * Nd * Md]

\* a resulting genome and the way add_connection came to it
Outcome(r, o) == [nodes |-> r.nodes, cxs |-> r.cxs, outcome |-> o]

add_connection_unchecked(nodes, cxs, g) ==
    LET pairs == {p \in (DOMAIN nodes) \X (DOMAIN nodes) : p[1] # p[2]}
        existing == pairs \cap DOMAIN cxs
        kept == IF existing = {} THEN {}
                ELSE {Outcome(Genome(nodes, cxs), "existing")}
        reenabled == {Outcome(Genome(nodes, [cxs EXCEPT ![k].enabled = TRUE]),
                              "reenabled") :
                         k \in {e \in existing : ~cxs[e].enabled}}
        valid == pairs \ existing
        added == {Outcome(Genome(update_node_layers(nodes,
                                     Put(cxs, x[1], Connection(x[2], TRUE, g))),
                                 Put(cxs, x[1], Connection(x[2], TRUE, g))),
                          "added") :
                     x \in valid \X RandomWeights}
        failed == pairs \ (existing \cup valid)
    IN  add_connection_tries(Attempts, kept \cup reenabled \cup added,
                             failed # {}, Outcome(Genome(nodes, cxs), "exhausted"))

add_connection_relayering(nodes, cxs, g) ==
    LET pairs == {p \in (DOMAIN nodes) \X (DOMAIN nodes) : p[1] # p[2]}
        existing == pairs \cap DOMAIN cxs
        kept == IF existing = {} THEN {}
                ELSE {Outcome(Genome(nodes, cxs), "existing")}
        reenabled == {Outcome(Genome(nodes, [cxs EXCEPT ![k].enabled = TRUE]),
                              "reenabled") :
                         k \in {e \in existing : ~cxs[e].enabled}}
        valid == {p \in pairs \ existing : is_valid_connection(nodes, p)}
        added == {Outcome(Genome(update_node_layers(nodes,
                                     Put(cxs, x[1], Connection(x[2], TRUE, g))),
                                 Put(cxs, x[1], Connection(x[2], TRUE, g))),
                          "added") :
                     x \in valid \X RandomWeights}
        failed == pairs \ (existing \cup valid)
    IN  add_connection_tries(Attempts, kept \cup reenabled \cup added,
                             failed # {},
                             Outcome(Genome(update_node_layers(nodes, cxs), cxs),
                                     "exhausted"))

add_connection(nodes, cxs, g) ==
    LET pairs == {p \in (DOMAIN nodes) \X (DOMAIN nodes) : p[1] # p[2]}
        existing == pairs \cap DOMAIN cxs
        kept == IF existing = {} THEN {}
                ELSE {Outcome(Genome(nodes, cxs), "existing")}
        reenabled == {Outcome(Genome(nodes, [cxs EXCEPT ![k].enabled = TRUE]),
                              "reenabled") :
                         k \in {e \in existing : ~cxs[e].enabled}}
        valid == {p \in pairs \ existing : is_valid_connection(nodes, p)}
        added == {Outcome(Genome(update_node_layers(nodes,
                                     Put(cxs, x[1], Connection(x[2], TRUE, g))),
                                 Put(cxs, x[1], Connection(x[2], TRUE, g))),
                          "added") :
                     x \in valid \X RandomWeights}
        failed == pairs \ (existing \cup valid)
    IN  add_connection_tries(Attempts, kept \cup reenabled \cup added,
                             failed # {}, Outcome(Genome(nodes, cxs), "exhausted"))

disable_connection(cxs, key) == [cxs EXCEPT ![key].enabled = FALSE]

\* clamp_weights on one weight (weight_threshold is below one weight unit)
clamp_weight(w) ==
    LET snapped == IF w < 1 /\ w > -1 THEN 0 ELSE w
    IN  IF snapped < 0 - max_weight THEN 0 - max_weight
        ELSE IF snapped > max_weight THEN max_weight ELSE snapped

\* mutate_weights on one connection: perturbed, re-initialised or left alone
mutated_weights(w) ==
    {clamp_weight(w + d) : d \in (0 - weight_mutation_max)..weight_mutation_max}
    \cup {clamp_weight(r) : r \in RandomWeights}
    \cup {clamp_weight(w)}

\* every dictionary over K whose value at k is drawn from choices[k]
RECURSIVE Dicts(_, _)
Dicts(K, choices) ==
    IF K = {} THEN {EmptyDict}
    ELSE LET k == CHOOSE x \in K : TRUE
         IN  {Put(x[1], k, x[2]) : x \in Dicts(K \ {k}, choices) \X choices[k]}

mutate_weights(cxs) ==
    Dicts(DOMAIN cxs,
          [k \in DOMAIN cxs |->
              {[cxs[k] EXCEPT !.weight = w] : w \in mutated_weights(cxs[k].weight)}])

\* mutate_activations with config.output_activation = None and
\* allow_input_activation_mutation = False
eligible_nodes(nodes) == hidden_nodes(nodes) \cup output_nodes(nodes)

mutate_activations(nodes, activations) ==
    Dicts(DOMAIN nodes,
          [n \in DOMAIN nodes |->
              IF n \in eligible_nodes(nodes)
              THEN {[nodes[n] EXCEPT !.activation = fn] : fn \in activations}
                   \cup {nodes[n]}
              ELSE {nodes[n]}])

\* mutate: the genomes and the id counter it can end with.  Each of add_node,
\* remove_node, add_connection and disable_connection is applied or skipped,
\* then mutate_activations, mutate_weights and update_node_layers are applied.
\* prob_mutate_weight is 0 (with prob_weight_reinit 0: no weight is touched)
\* or 1 (any positive rate: every connection may be touched)
Mutated(nodes, cxs, indexer) == [nodes |-> nodes, cxs |-> cxs, indexer |-> indexer]

mutate(nodes, cxs, indexer, activations, prob_mutate_weight, g) ==
    LET start == Mutated(nodes, cxs, indexer)
        new(s) == get_new_node_id(s.nodes, s.indexer)
        with_add_node(s) ==
            {s} \cup
            {Mutated(r.nodes, r.cxs, new(s)[2]) :
                r \in {split_connection(s.nodes, s.cxs, x[1], new(s)[1], x[2], g) :
                          x \in eligible_cxs(s.cxs) \X activations}}
        with_remove_node(s) ==
            {s} \cup
            {Mutated(r.nodes, r.cxs, s.indexer) :
                r \in {delete_node(s.nodes, s.cxs, n) : n \in hidden_nodes(s.nodes)}}
        with_add_connection(s) ==
            {s} \cup
            {Mutated(r.nodes, r.cxs, s.indexer) :
                r \in add_connection(s.nodes, s.cxs, g)}
        with_disable_connection(s) ==
            {s} \cup
            {Mutated(s.nodes, disable_connection(s.cxs, k), s.indexer) :
                k \in enabled_connections(s.cxs)}
        with_mutate_activations(s) ==
            {Mutated(n, s.cxs, s.indexer) :
                n \in mutate_activations(s.nodes, activations)}
        with_mutate_weights(s) ==
            IF prob_mutate_weight = 0 THEN {s}
            ELSE {Mutated(s.nodes, c, s.indexer) : c \in mutate_weights(s.cxs)}
        after1 == with_add_node(start)
        after2 == UNION {with_remove_node(s) : s \in after1}
        after3 == UNION {with_add_connection(s) : s \in after2}
        after4 == UNION {with_disable_connection(s) : s \in after3}
        after5 == UNION {with_mutate_activations(s) : s \in after4}
        after6 == UNION {with_mutate_weights(s) : s \in after5}
    IN  {Mutated(update_node_layers(s.nodes, s.cxs), s.cxs, s.indexer) :
            s \in after6}

----------------------------------------------------------------------------
(* Recombination *)

\* Gene.copy: a new gene object of the same key, created by the child c,
\* carrying the gene attributes; a new Node starts at the sentinel layer
Node_copy(n, c) == Node(n.activation, n.type, Sentinel, c)

Connection_copy(cx, c) == Connection(cx.weight, cx.enabled, c)

\* Gene.crossover: a new gene object with each gene attribute from one parent
\* or the other
Node_crossover(n1, n2, c) ==
    {Node(x[1], x[2], Sentinel, c) :
        x \in {n1.activation, n2.activation} \X {n1.type, n2.type}}

\* Gene.crossover averaging the weights of the two parents
Connection_crossover_blending(cx1, cx2, c) ==
    {Connection((cx1.weight + cx2.weight) \div 2, e, c) : e \in {cx1.enabled, cx2.enabled}}

\* Gene.crossover handing the first parent's gene object to the child
Connection_crossover_sharing(cx1, cx2, c) == {cx1}

Connection_crossover(cx1, cx2, c) ==
    {Connection(x[1], x[2], c) :
        x \in {cx1.weight, cx2.weight} \X {cx1.enabled, cx2.enabled}}

\* crossover taking the less fit parent as parent1
parent_order_reversed(a, b, fit) ==
    IF fit[a] > fit[b] THEN {<<b, a>>}
    ELSE IF fit[a] < fit[b] THEN {<<a, b>>}
    ELSE {<<a, b>>, <<b, a>>}

\* the orders <<parent1, parent2>> crossover may settle on for self a, other b
parent_order(a, b, fit) ==
    IF fit[a] > fit[b] THEN {<<a, b>>}
    ELSE IF fit[a] < fit[b] THEN {<<b, a>>}
    ELSE {<<a, b>>, <<b, a>>}

\* the genes of the children c of parent1 (nodes1, cxs1) and parent2 (nodes2,
\* cxs2), before the child's layers are computed
crossover(nodes1, cxs1, nodes2, cxs2, c) ==
    LET child_cxs == Dicts(DOMAIN cxs1,
            [k \in DOMAIN cxs1 |->
                IF k \notin DOMAIN cxs2 THEN {Connection_copy(cxs1[k], c)}
                ELSE Connection_crossover(cxs1[k], cxs2[k], c)])
        child_nodes == Dicts(DOMAIN nodes1,
            [n \in DOMAIN nodes1 |->
                IF n \notin DOMAIN nodes2 THEN {Node_copy(nodes1[n], c)}
                ELSE Node_crossover(nodes1[n], nodes2[n], c)])
    IN  {Genome(x[1], x[2]) : x \in child_nodes \X child_cxs}

----------------------------------------------------------------------------
(* The state machine: a population of genomes under mutation and crossover *)

\* an operation on the genome in slot g; arg is the node added or removed, or
\* self of a crossover, whose other parent is `other`; an evaluation records
\* the inputs it was given and whether it raised
\* `done` tells that the operation did not return early, `result` is what a
\* query returned
Op(name, g, arg) ==
    [op |-> name, g |-> g, arg |-> arg, other |-> 0, inputs |-> << >>,
     raised |-> FALSE, done |-> TRUE, result |-> << >>]

----------------------------------------------------------------------------
(* Serialization.  A JSON document is a record; its node_genome and         *)
(* connection_genome are lists, in the order of the dictionaries.  An       *)
(* activation function is told from its name: the name is the quoted        *)
(* string.                                                                  *)

\* fn.__name__ for the functions of the activation module
fn_name == [fn \in Activations |->
              IF fn = "identity" THEN "'identity'" ELSE "'abs'"]

name_to_fn_default(name) == "identity"

\* name_to_fn: the member of the activation module that has the name
name_to_fn(name) == CHOOSE fn \in Activations : fn_name[fn] = name

\* Node.serialize: the activation becomes its name (a name has no __name__
\* and stays); type and layer keep their values as ints
Node_serialize(n) ==
    [n EXCEPT !.activation = IF @ \in Activations THEN fn_name[@] ELSE @]

\* Node.deserialize
Node_deserialize(n) ==
    [n EXCEPT !.activation = IF @ \in Activations THEN @ ELSE name_to_fn(@)]

\* Node.to_json of the node with key id: json.dumps(self.__dict__)
Node_to_json(id, n) ==
    [id |-> id, type |-> n.type, layer |-> n.layer,
     activation |-> Node_serialize(n).activation]

\* Node.create_from_json, as an object of genome c
Node_create_from_json(item, c) ==
    Node_deserialize(Node(item.activation, item.type, item.layer, c))

\* Connection.serialize: float(self.weight), the number the float32 tensor
\* holds
Connection_serialize(cx) == [cx EXCEPT !.weight = @]

\* Connection.to_json of the connection with key key_: the key is a list
Connection_to_json(key_, cx) ==
    [key_ |-> <<key_[1], key_[2]>>, weight |-> cx.weight, enabled |-> cx.enabled,
     is_recurrent |-> cx.is_recurrent]

\* Connection.create_from_json, as an object of genome c: the weight becomes
\* a float32 tensor again
Connection_create_from_json(obj, c) ==
    [Connection(obj.weight, obj.enabled, c)
        EXCEPT !.is_recurrent = obj.is_recurrent]

\* the keys of a dictionary as a list
KeyList(K, before) ==
    [i \in 1..Cardinality(K) |->
        CHOOSE k \in K : Cardinality({x \in K \ {k} : <<x, k>> \in before}) = i - 1]

NodeBefore(a, b) ==
    (IF a < 0 THEN 0 - a ELSE n_inputs + 2 + a)
        < (IF b < 0 THEN 0 - b ELSE n_inputs + 2 + b)

\* CPPN.serialize on the genes: every node and connection in place
serialize(nodes, cxs) ==
    Genome([n \in DOMAIN nodes |-> Node_serialize(nodes[n])],
           [k \in DOMAIN cxs |-> Connection_serialize(cxs[k])])

\* CPPN.to_json after serialize: the document
to_json(id, nodes, cxs, img, fit) ==
    LET ids == KeyList(DOMAIN nodes,
                       {p \in (DOMAIN nodes) \X (DOMAIN nodes) : NodeBefore(p[1], p[2])})
        keys == KeyList(DOMAIN cxs,
                        {p \in (DOMAIN cxs) \X (DOMAIN cxs) : KeyLess(p[1], p[2])})
    IN  [id |-> id,
         node_genome |-> [i \in DOMAIN ids |-> Node_to_json(ids[i], nodes[ids[i]])],
         connection_genome |->
             [i \in DOMAIN keys |-> Connection_to_json(keys[i], cxs[keys[i]])],
         image |-> img,
         fitness |-> fit]

\* the item of a list that the dictionary built from it holds at a key: the
\* last one with the key
LastWith(list, keys, k) ==
    list[CHOOSE i \in DOMAIN list :
            /\ keys[i] = k
            /\ \A j \in DOMAIN list : keys[j] = k => j <= i]

\* CPPN.from_json on the genes: the dictionaries are rebuilt from the lists,
\* keyed by obj["id"] and tuple(obj["key_"]), then update_node_layers
from_json(json_dict, c) ==
    LET NodeKey(item) == item.id
        CxKey(obj) == <<obj.key_[1], obj.key_[2]>>
        node_list == json_dict.node_genome
        cx_list == json_dict.connection_genome
        ids == [i \in DOMAIN node_list |-> NodeKey(node_list[i])]
        keys == [i \in DOMAIN cx_list |-> CxKey(cx_list[i])]
        nodes == [id \in {ids[i] : i \in DOMAIN ids} |->
                     Node_create_from_json(LastWith(node_list, ids, id), c)]
        cxs == [k \in {keys[i] : i \in DOMAIN keys} |->
                   Connection_create_from_json(LastWith(cx_list, keys, k), c)]
    IN  Genome(update_node_layers(nodes, cxs), cxs)

\* slot g drops its cached image (self.image = None)
ImageKept(g) == image' = image

ImageReset(g) == image' = [image EXCEPT ![g] = << >>]

\* The dictionaries of all slots after the genome in slot g has gone from
\* dicts[g] to new.  Insertions and deletions change the dictionary of g
\* alone; an attribute of a gene that stays is written in place, so the write
\* shows in every dictionary that holds the same object.
Written(dicts, g, new) ==
    [h \in Slots |->
        IF h = g THEN new
        ELSE [k \in DOMAIN dicts[h] |->
                 IF /\ k \in DOMAIN dicts[g]
                    /\ k \in DOMAIN new
                    /\ dicts[h][k].obj = dicts[g][k].obj
                    /\ new[k].obj = dicts[g][k].obj
                 THEN new[k]
                 ELSE dicts[h][k]]]

\* the genome in slot g becomes genome r; the cached node outputs stay with
\* the nodes that remain and a new node has none
Becomes(g, r) ==
    /\ node_genome' = Written(node_genome, g, r.nodes)
    /\ connection_genome' = Written(connection_genome, g, r.cxs)
    /\ outputs' = [outputs EXCEPT ![g] =
                      [n \in DOMAIN r.nodes |->
                          IF n \in DOMAIN outputs[g] THEN outputs[g][n] ELSE << >>]]

\* Every genome of a run is built from the same configuration, and __init__
\* seeds the generator with config.seed before the weights are drawn, so the
\* initial weights are the same draw w in every genome.  A draw from a
\* continuous range is not zero.
InitialWeights ==
    {w \in [InputIds \X OutputIds -> RandomWeights \ {0}] : w[<<-1, -3>>] = max_weight}

Config(activations, res_h, res_w) ==
    [activations |-> activations, res_h |-> res_h, res_w |-> res_w,
     use_input_bias |-> FALSE, prob_mutate_weight |-> 0]

\* CPPN(config, None, connections) for the genomes of G: connections[g] is
\* the argument, or << >> (None) for initialize_connection_genome with weights w
ConstructedWith(G, w, f, connections) ==
    /\ population = G
    /\ connection_genome = [g \in Slots |->
           IF g \notin G THEN EmptyDict
           ELSE IF connections[g] = << >> THEN initialize_connection_genome(w, g)
           ELSE connections[g][1]]
    /\ node_genome = [g \in Slots |->
           IF g \in G THEN initialize_node_genome(f[g], g) ELSE EmptyDict]
    /\ outputs = [g \in Slots |->
           IF g \in G THEN [n \in InputIds \cup OutputIds |-> << >>] ELSE EmptyDict]
    /\ node_indexer = << >>
    /\ last_op = Op("init", 0, 0)
    /\ image = [g \in Slots |-> << >>]
    /\ pixel_inputs = <<[shape |-> <<0, 0, 0>>, at |-> << >>, use_bias |-> FALSE]>>
    /\ Node_current_id = << >>
    /\ files = {}
    /\ threads = [t \in Threads |->
                     [pc |-> "idle", g |-> 0, new_id |-> << >>, received |-> {}]]

Constructed(G, w, f) == ConstructedWith(G, w, f, [g \in Slots |-> << >>])

Init ==
    /\ \E w \in InitialWeights, f \in [{1, 2} -> [OutputIds -> Activations]] :
          Constructed({1, 2}, w, f)
    /\ \E f1 \in {0, 1} : fitness = [g \in Slots |-> IF g = 1 THEN f1 ELSE 0]
    /\ config = Config(Activations, MaxRes, MaxRes)
    /\ budget = MaxSteps

\* a call that returns before it changes anything
Returns(name, g) ==
    /\ last_op' = [Op(name, g, 0) EXCEPT !.done = FALSE]
    /\ UNCHANGED <<node_genome, connection_genome, outputs, node_indexer, image>>

AddNode(g) ==
    /\ budget > 0
    /\ g \in population
    /\ IF eligible_cxs(connection_genome[g]) = {}
       THEN Returns("add_node", g)
       ELSE \E old_connection \in eligible_cxs(connection_genome[g]),
               fn \in config.activations :
               LET new == get_new_node_id(node_genome[g], node_indexer)
               IN  IF new[1] \in DOMAIN node_genome[g]
                   THEN \* the assertion of get_new_node_id fails
                        /\ node_indexer' = new[2]
                        /\ last_op' = [Op("add_node", g, new[1])
                                          EXCEPT !.raised = TRUE, !.done = FALSE]
                        /\ UNCHANGED <<node_genome, connection_genome, outputs,
                                       image>>
                   ELSE /\ Becomes(g, split_connection(node_genome[g],
                                          connection_genome[g], old_connection,
                                          new[1], fn, g))
                        /\ node_indexer' = new[2]
                        /\ last_op' = Op("add_node", g, new[1])
                        /\ ImageReset(g)
    /\ budget' = budget - 1
    /\ UNCHANGED <<config, population, fitness, elsewhere>>

RemoveNode(g) ==
    /\ budget > 0
    /\ g \in population
    /\ IF hidden_nodes(node_genome[g]) = {}
       THEN Returns("remove_node", g)
       ELSE \E node_id_to_remove \in hidden_nodes(node_genome[g]) :
               /\ Becomes(g, delete_node(node_genome[g], connection_genome[g],
                                         node_id_to_remove))
               /\ last_op' = Op("remove_node", g, node_id_to_remove)
               /\ ImageReset(g)
               /\ UNCHANGED node_indexer
    /\ budget' = budget - 1
    /\ UNCHANGED <<config, population, fitness, elsewhere>>

AddConnection(g) ==
    /\ budget > 0
    /\ g \in population
    /\ \E r \in add_connection(node_genome[g], connection_genome[g], g) :
          /\ Becomes(g, r)
          /\ last_op' = [Op("add_connection", g, 0)
                            EXCEPT !.done = r.outcome \in {"added", "reenabled"},
                                   !.result = <<r.outcome>>]
    /\ ImageReset(g)
    /\ budget' = budget - 1
    /\ UNCHANGED <<config, population, fitness, node_indexer, elsewhere>>

DisableConnection(g) ==
    /\ budget > 0
    /\ g \in population
    /\ IF enabled_connections(connection_genome[g]) = {}
       THEN Returns("disable_connection", g)
       ELSE \E key \in enabled_connections(connection_genome[g]) :
               /\ Becomes(g, Genome(node_genome[g],
                                    disable_connection(connection_genome[g], key)))
               /\ last_op' = Op("disable_connection", g, 0)
               /\ ImageReset(g)
               /\ UNCHANGED node_indexer
    /\ budget' = budget - 1
    /\ UNCHANGED <<config, population, fitness, elsewhere>>

MutateWeights(g) ==
    /\ budget > 0
    /\ g \in population
    /\ \E cxs \in mutate_weights(connection_genome[g]) :
          Becomes(g, Genome(node_genome[g], cxs))
    /\ last_op' = Op("mutate_weights", g, 0)
    /\ ImageReset(g)
    /\ budget' = budget - 1
    /\ UNCHANGED <<config, population, fitness, node_indexer, elsewhere>>

MutateActivations(g) ==
    /\ budget > 0
    /\ g \in population
    /\ \E nodes \in mutate_activations(node_genome[g], config.activations) :
          Becomes(g, Genome(nodes, connection_genome[g]))
    /\ last_op' = Op("mutate_activations", g, 0)
    /\ ImageReset(g)
    /\ budget' = budget - 1
    /\ UNCHANGED <<config, population, fitness, node_indexer, elsewhere>>

\* mutate: a sequence of up to six operations, counted as two
Mutate(g) ==
    /\ budget > 1
    /\ g \in population
    /\ \E r \in mutate(node_genome[g], connection_genome[g], node_indexer,
                        config.activations, config.prob_mutate_weight, g) :
          /\ Becomes(g, Genome(r.nodes, r.cxs))
          /\ node_indexer' = r.indexer
    /\ fitness' = [fitness EXCEPT ![g] = 0]
    /\ last_op' = Op("mutate", g, 0)
    /\ ImageReset(g)
    /\ budget' = budget - 2
    /\ UNCHANGED <<config, population, elsewhere>>

UpdateNodeLayers(g) ==
    /\ budget > 0
    /\ g \in population
    /\ Becomes(g, Genome(update_node_layers(node_genome[g], connection_genome[g]),
                         connection_genome[g]))
    /\ last_op' = Op("update_node_layers", g, 0)
    /\ budget' = budget - 1
    /\ UNCHANGED <<config, population, fitness, node_indexer, image, elsewhere>>

\* child = a.crossover(b); the child takes the free slot c
Crossover(a, b, c) ==
    /\ budget > 0
    /\ a \in population /\ b \in population /\ a # b
    /\ c \in Slots \ {a, b}
    /\ \E p \in parent_order(a, b, fitness) :
          \E child \in crossover(node_genome[p[1]], connection_genome[p[1]],
                                 node_genome[p[2]], connection_genome[p[2]], c) :
             /\ node_genome' = Written([node_genome EXCEPT ![c] = child.nodes], c,
                                       update_node_layers(child.nodes, child.cxs))
             /\ connection_genome' = [connection_genome EXCEPT ![c] = child.cxs]
             /\ outputs' = [outputs EXCEPT ![c] = NoOutputs(child.nodes)]
             /\ last_op' = [Op("crossover", c, a) EXCEPT !.other = b]
    /\ population' = population \cup {c}
    /\ fitness' = [fitness EXCEPT ![c] = 0]
    /\ ImageReset(c)
    /\ budget' = budget - 1
    /\ UNCHANGED <<config, node_indexer, elsewhere>>

Next ==
    \/ \E g \in Slots : AddNode(g)
    \/ \E g \in Slots : RemoveNode(g)
    \/ \E g \in Slots : AddConnection(g)
    \/ \E g \in Slots : DisableConnection(g)
    \/ \E g \in Slots : MutateWeights(g)
    \/ \E g \in Slots : MutateActivations(g)
    \/ \E g \in Slots : UpdateNodeLayers(g)
    \/ \E a \in Slots, b \in Slots, c \in Slots : Crossover(a, b, c)

Spec == Init /\ [][Next]_vars

----------------------------------------------------------------------------
(* One genome under the structural mutations *)

InitGenome ==
    /\ \E w \in InitialWeights, f \in [{1} -> [OutputIds -> {"identity"}]] :
          Constructed({1}, w, f)
    /\ fitness = [g \in Slots |-> 0]
    /\ config = Config({"identity"}, MaxRes, MaxRes)
    /\ budget = MaxDepth

NextGenome ==
    \/ \E g \in Slots : AddNode(g)
    \/ \E g \in Slots : RemoveNode(g)
    \/ \E g \in Slots : AddConnection(g)
    \/ \E g \in Slots : DisableConnection(g)
    \/ \E g \in Slots : UpdateNodeLayers(g)

SpecGenome == InitGenome /\ [][NextGenome]_vars

----------------------------------------------------------------------------
(* One genome under the structural mutations and evaluation *)

\* the coordinates -.5, 0 and .5
Coordinates == {0 - (One \div 2), 0, One \div 2}

Eval(g, inputs) ==
    /\ budget > 0
    /\ g \in population
    /\ LET e == eval(node_genome[g], connection_genome[g], outputs[g], inputs)
       IN  /\ outputs' = [outputs EXCEPT ![g] = e.outputs]
           /\ last_op' = [Op("eval", g, 0) EXCEPT !.inputs = inputs,
                                                  !.raised = e.raised]
    /\ budget' = budget - 1
    /\ UNCHANGED <<config, population, node_genome, connection_genome, fitness,
                   node_indexer, image, elsewhere>>

\* Node.activate calls self.activation: the activations are functions, not
\* the names that serialize leaves
Callable(nodes) == \A n \in DOMAIN nodes : nodes[n].activation \in Activations

\* get_image_data_parallel with one output and normalize_outputs off: the
\* image is the outputs of the output node
GetImageDataParallel(g) ==
    /\ budget > 0
    /\ g \in population
    /\ LET c == cached_inputs(pixel_inputs, config)
           r == get_image_data_parallel(node_genome[g], connection_genome[g],
                                        c.tensor, config.res_h, config.res_w)
       IN  /\ pixel_inputs' = <<c.tensor>>
           /\ IF c.raised
              THEN /\ last_op' = [Op("get_image_data_parallel", g, 0)
                                    EXCEPT !.raised = TRUE]
                   /\ UNCHANGED <<outputs, image>>
              ELSE IF ~Callable(node_genome[g])
              THEN /\ outputs' = [outputs EXCEPT ![g] =
                         reset_activations(node_genome[g], config.res_h,
                                           config.res_w)]
                   /\ last_op' = [Op("get_image_data_parallel", g, 0)
                                    EXCEPT !.raised = TRUE]
                   /\ UNCHANGED image
              ELSE /\ outputs' = [outputs EXCEPT ![g] = r.outputs]
                   /\ last_op' = [Op("get_image_data_parallel", g, 0)
                                    EXCEPT !.raised = r.raised]
                   /\ image' = IF r.raised THEN image
                               ELSE [image EXCEPT ![g] =
                                       <<r.outputs[CHOOSE o \in OutputIds : TRUE][1]>>]
    /\ budget' = budget - 1
    /\ UNCHANGED <<config, population, node_genome, connection_genome, fitness,
                   node_indexer, Node_current_id, files, threads>>

\* the calls of eval, then torch.reshape of the list of their results, which
\* raises
GetImageDataSerial(g) ==
    /\ budget > 0
    /\ g \in population
    /\ LET r == get_image_data_serial(node_genome[g], connection_genome[g],
                                      outputs[g], config.res_h, config.res_w)
       IN  /\ outputs' = [outputs EXCEPT ![g] = r.outputs]
           /\ last_op' = [Op("get_image_data_serial", g, 0) EXCEPT !.raised = TRUE]
    /\ budget' = budget - 1
    /\ UNCHANGED <<config, population, node_genome, connection_genome, fitness,
                   node_indexer, image, elsewhere>>

InitEval ==
    /\ \E w \in InitialWeights, f \in [{1} -> [OutputIds -> Activations]] :
          Constructed({1}, w, f)
    /\ fitness = [g \in Slots |-> 0]
    /\ \E res_h \in 1..MaxRes : config = Config(Activations, res_h, MaxRes)
    /\ budget = MaxEval

NextEval ==
    \/ \E g \in Slots : AddNode(g)
    \/ \E g \in Slots : RemoveNode(g)
    \/ \E g \in Slots : DisableConnection(g)
    \/ \E g \in Slots, inputs \in Coordinates \X Coordinates : Eval(g, inputs)
    \/ \E g \in Slots : GetImageDataParallel(g)
    \/ \E g \in Slots : GetImageDataSerial(g)

SpecEval == InitEval /\ [][NextEval]_vars

----------------------------------------------------------------------------
(* Two genomes and their genetic difference *)

GeneticDifference(a, b) ==
    /\ budget > 0
    /\ a \in population
    /\ b \in population
    /\ last_op' = [Op("genetic_difference", a, 0)
                     EXCEPT !.other = b,
                            !.result = <<genetic_difference(
                                            node_genome[a], connection_genome[a],
                                            node_genome[b], connection_genome[b])>>]
    /\ budget' = budget - 1
    /\ UNCHANGED <<config, population, node_genome, connection_genome, fitness,
                   outputs, node_indexer, image, elsewhere>>

InitDistance ==
    /\ \E w \in InitialWeights, f \in [{1, 2} -> [OutputIds -> Activations]] :
          Constructed({1, 2}, w, f)
    /\ fitness = [g \in Slots |-> 0]
    /\ config = Config(Activations, MaxRes, MaxRes)
    /\ budget = MaxDist

NextDistance ==
    \/ \E g \in Slots : AddNode(g)
    \/ \E g \in Slots : DisableConnection(g)
    \/ \E g \in Slots : MutateWeights(g)
    \/ \E g \in Slots : MutateActivations(g)
    \/ \E a \in Slots, b \in Slots : GeneticDifference(a, b)

SpecDistance == InitDistance /\ [][NextDistance]_vars

----------------------------------------------------------------------------
(* One genome, its mutations and its cached image *)

\* the connections argument of the constructor is None or an empty
\* dictionary; mutate perturbs weights in the runs of the genome that starts
\* without connections
InitImage ==
    /\ \E w \in InitialWeights, f \in [{1} -> [OutputIds -> {"identity"}]],
          connections \in {<< >>, <<EmptyDict>>} :
          /\ ConstructedWith({1}, w, f, [g \in Slots |-> connections])
          /\ \E rate \in {0, 1} :
                /\ rate = 1 => connections # << >>
                /\ config = [Config({"identity"}, MaxRes, MaxRes)
                                EXCEPT !.prob_mutate_weight = rate]
    /\ fitness = [g \in Slots |-> 0]
    /\ budget = MaxImage

NextImage ==
    \/ \E g \in Slots : AddNode(g)
    \/ \E g \in Slots : RemoveNode(g)
    \/ \E g \in Slots : AddConnection(g)
    \/ \E g \in Slots : DisableConnection(g)
    \/ \E g \in Slots : MutateWeights(g)
    \/ \E g \in Slots : MutateActivations(g)
    \/ \E g \in Slots : Mutate(g)
    \/ \E g \in Slots : GetImageDataParallel(g)

SpecImage == InitImage /\ [][NextImage]_vars

----------------------------------------------------------------------------
(* Processes, files and the id counter *)

num_inputs == Cardinality(InputIds)

num_outputs == Cardinality(OutputIds)

\* EvolutionaryAlgorithm.__init__
EvolutionaryAlgorithm ==
    /\ budget > 0
    /\ Node_current_id' = <<num_inputs + num_outputs>>
    /\ last_op' = Op("EvolutionaryAlgorithm", 0, 0)
    /\ budget' = budget - 1
    /\ UNCHANGED <<config, population, node_genome, connection_genome, fitness,
                   outputs, node_indexer, image, pixel_inputs, files, threads>>

\* json_ = g.to_json(), written to a file
ToJson(g) ==
    /\ budget > 0
    /\ g \in population
    /\ LET r == serialize(node_genome[g], connection_genome[g])
           json_ == to_json(g, r.nodes, r.cxs, image[g], fitness[g])
       IN  /\ json_ \in files \/ Cardinality(files) < MaxFiles
           /\ node_genome' = Written(node_genome, g, r.nodes)
           /\ connection_genome' = Written(connection_genome, g, r.cxs)
           /\ files' = files \cup {json_}
           /\ last_op' = [Op("to_json", g, 0) EXCEPT !.result = <<json_>>]
    /\ outputs' = [outputs EXCEPT ![g] = NoOutputs(node_genome[g])]
    /\ pixel_inputs' = << >>
    /\ budget' = budget - 1
    /\ UNCHANGED <<config, population, fitness, node_indexer, image,
                   Node_current_id, threads>>

\* c = CPPN.create_from_json(json_dict, config), read from a file
FromJson(c) ==
    /\ budget > 0
    /\ c \in Slots \ population
    /\ \E json_dict \in files :
          LET r == from_json(json_dict, c)
              i == initialize_inputs(config.res_h, config.res_w,
                                     config.use_input_bias, n_inputs)
          IN  /\ node_genome' = [node_genome EXCEPT ![c] = r.nodes]
              /\ connection_genome' = [connection_genome EXCEPT ![c] = r.cxs]
              /\ outputs' = [outputs EXCEPT ![c] = NoOutputs(r.nodes)]
              /\ pixel_inputs' = <<i.tensor>>
              /\ last_op' = [Op("from_json", c, 0)
                                EXCEPT !.result = <<json_dict>>,
                                       !.raised = i.raised]
              /\ fitness' = [fitness EXCEPT ![c] = json_dict.fitness]
              /\ image' = [image EXCEPT ![c] = json_dict.image]
    /\ population' = population \cup {c}
    /\ budget' = budget - 1
    /\ UNCHANGED <<config, node_indexer, Node_current_id, files, threads>>

\* c = a.clone(): a deep copy
Clone(a, c) ==
    /\ budget > 0
    /\ a \in population
    /\ c \in Slots \ population
    /\ node_genome' = [node_genome EXCEPT ![c] =
           [n \in DOMAIN node_genome[a] |-> [node_genome[a][n] EXCEPT !.obj = c]]]
    /\ connection_genome' = [connection_genome EXCEPT ![c] =
           [k \in DOMAIN connection_genome[a] |->
               [connection_genome[a][k] EXCEPT !.obj = c]]]
    /\ outputs' = [outputs EXCEPT ![c] = outputs[a]]
    /\ population' = population \cup {c}
    /\ fitness' = [fitness EXCEPT ![c] = fitness[a]]
    /\ image' = [image EXCEPT ![c] = image[a]]
    /\ last_op' = [Op("clone", c, a) EXCEPT !.other = a]
    /\ budget' = budget - 1
    /\ UNCHANGED <<config, node_indexer, elsewhere>>

\* the process ends and a new one starts: the class attributes are those of
\* the class definition, one genome is constructed, the files remain
NewProcess ==
    /\ budget > 0
    /\ population' = {1}
    /\ \E w \in InitialWeights :
          connection_genome' = [g \in Slots |->
              IF g = 1 THEN initialize_connection_genome(w, g) ELSE EmptyDict]
    /\ node_genome' = [g \in Slots |->
          IF g = 1
          THEN initialize_node_genome([o \in OutputIds |-> "identity"], g)
          ELSE EmptyDict]
    /\ outputs' = [g \in Slots |->
          IF g = 1 THEN [n \in InputIds \cup OutputIds |-> << >>] ELSE EmptyDict]
    /\ fitness' = [g \in Slots |-> 0]
    /\ node_indexer' = << >>
    /\ image' = [g \in Slots |-> << >>]
    /\ pixel_inputs' = <<[shape |-> <<0, 0, 0>>, at |-> << >>, use_bias |-> FALSE]>>
    /\ Node_current_id' = << >>
    /\ last_op' = Op("new_process", 0, 0)
    /\ budget' = budget - 1
    /\ UNCHANGED <<config, files, threads>>

InitIds ==
    /\ \E w \in InitialWeights, f \in [{1} -> [OutputIds -> {"identity"}]] :
          Constructed({1}, w, f)
    /\ fitness = [g \in Slots |-> 0]
    /\ config = Config({"identity"}, MaxRes, MaxRes)
    /\ budget = MaxIds

NextIds ==
    \/ EvolutionaryAlgorithm
    \/ \E g \in Slots : AddNode(g)
    \/ \E a \in Slots, c \in Slots : Clone(a, c)
    \/ \E a \in Slots, b \in Slots, c \in Slots : Crossover(a, b, c)
    \/ \E g \in Slots : ToJson(g)
    \/ \E c \in Slots : FromJson(c)
    \/ NewProcess

SpecIds == InitIds /\ [][NextIds]_vars

----------------------------------------------------------------------------
(* Two threads in add_node, each on its own genome.  A thread is between    *)
(* calls ("idle"), before the test of CPPN.node_indexer ("test"), before    *)
(* the assignment of a new counter ("assign"), before next(...) ("next") or *)
(* before the insertion of the new node ("insert").                         *)

ThreadStep(t, from, to) ==
    /\ budget > 0
    /\ threads[t].pc = from
    /\ threads' = [threads EXCEPT ![t].pc = to]
    /\ budget' = budget - 1
    /\ UNCHANGED <<config, population, fitness, pixel_inputs, Node_current_id,
                   files>>

\* thread t calls add_node on its genome t, which calls get_new_node_id
CallGetNewNodeId(t) ==
    /\ t \in population
    /\ eligible_cxs(connection_genome[t]) # {}
    /\ ThreadStep(t, "idle", "test")
    /\ last_op' = Op("get_new_node_id", t, 0)
    /\ UNCHANGED <<node_genome, connection_genome, outputs, node_indexer, image>>

\* if CPPN.node_indexer is None:
TestIndexer(t) ==
    /\ node_genome[t] # EmptyDict
    /\ ThreadStep(t, "test", IF node_indexer = << >> THEN "assign" ELSE "next")
    /\ last_op' = Op("test", t, 0)
    /\ UNCHANGED <<node_genome, connection_genome, outputs, node_indexer, image>>

\* CPPN.node_indexer = count(max(list(self.node_genome)) + 1)
AssignIndexer(t) ==
    /\ ThreadStep(t, "assign", "next")
    /\ node_indexer' = <<Max(DOMAIN node_genome[t]) + 1>>
    /\ last_op' = Op("assign", t, 0)
    /\ UNCHANGED <<node_genome, connection_genome, outputs, image>>

\* new_id = next(CPPN.node_indexer), the assertion, and the return
NextId(t) ==
    /\ budget > 0
    /\ threads[t].pc = "next"
    /\ LET new_id == node_indexer[1]
           fails == new_id \in DOMAIN node_genome[t]
       IN  /\ threads' = [threads EXCEPT
                  ![t].pc = IF fails THEN "idle" ELSE "insert",
                  ![t].new_id = <<new_id>>,
                  ![t].received = IF fails THEN @ ELSE @ \cup {new_id}]
           /\ last_op' = [Op("next", t, new_id) EXCEPT !.raised = fails]
    /\ node_indexer' = <<node_indexer[1] + 1>>
    /\ budget' = budget - 1
    /\ UNCHANGED <<config, population, fitness, node_genome, connection_genome,
                   outputs, image, pixel_inputs, Node_current_id, files>>

\* the rest of add_node with the id received
InsertNode(t) ==
    /\ ThreadStep(t, "insert", "idle")
    /\ \E old_connection \in eligible_cxs(connection_genome[t]),
          fn \in config.activations :
          Becomes(t, split_connection(node_genome[t], connection_genome[t],
                                      old_connection, threads[t].new_id[1], fn, t))
    /\ last_op' = Op("add_node", t, threads[t].new_id[1])
    /\ ImageReset(t)
    /\ UNCHANGED node_indexer

InitThreads ==
    /\ \E w \in InitialWeights, f \in [Threads -> [OutputIds -> {"identity"}]] :
          Constructed(Threads, w, f)
    /\ fitness = [g \in Slots |-> 0]
    /\ config = Config({"identity"}, MaxRes, MaxRes)
    /\ budget = MaxThreadSteps

NextThreads ==
    \/ \E t \in Threads : CallGetNewNodeId(t)
    \/ \E t \in Threads : TestIndexer(t)
    \/ \E t \in Threads : AssignIndexer(t)
    \/ \E t \in Threads : NextId(t)
    \/ \E t \in Threads : InsertNode(t)

SpecThreads == InitThreads /\ [][NextThreads]_vars

----------------------------------------------------------------------------
(* One genome evaluated on the grid while the configuration changes *)

\* an assignment to attributes of the configuration object
Reconfigured(new_config) ==
    /\ new_config # config
    /\ config' = new_config
    /\ budget' = budget - 1
    /\ UNCHANGED <<population, node_genome, connection_genome, fitness, outputs,
                   node_indexer, image, elsewhere>>

\* the size override of get_image: self.config.res_h = override_h and
\* self.config.res_w = override_w
OverrideSize(override_h, override_w) ==
    /\ budget > 0
    /\ Reconfigured([config EXCEPT !.res_h = override_h, !.res_w = override_w])
    /\ last_op' = Op("override_size", 0, 0)

\* the owner of the configuration switches the bias input feature
SetInputBias(use_input_bias) ==
    /\ budget > 0
    /\ Reconfigured([config EXCEPT !.use_input_bias = use_input_bias])
    /\ last_op' = Op("set_input_bias", 0, 0)

\* image.shape[0] and image.shape[1] of an image
shape(t) ==
    <<Max({p[1] : p \in DOMAIN t}) + 1, Max({p[2] : p \in DOMAIN t}) + 1>>

\* get_image(force_recalculate, override_h, override_w) with dry_run and
\* allow_recurrent false; an override is << >> (None) or <<size>>.  The cached
\* image is returned unless force_recalculate is set or its height or its
\* width equals the configured one; otherwise get_image_data_parallel runs.
GetImage(g, force_recalculate, override_h, override_w) ==
    /\ budget > 0
    /\ g \in population
    /\ LET res_h == IF override_h # << >> THEN override_h[1] ELSE config.res_h
           res_w == IF override_w # << >> THEN override_w[1] ELSE config.res_w
           new_config == [config EXCEPT !.res_h = res_h, !.res_w = res_w]
           recalculate ==
               \/ force_recalculate
               \/ image[g] = << >>
               \/ image[g] # << >> /\ \/ res_h = shape(image[g][1])[1]
                                       \/ res_w = shape(image[g][1])[2]
           c == cached_inputs(pixel_inputs, new_config)
           r == get_image_data_parallel(node_genome[g], connection_genome[g],
                                        c.tensor, res_h, res_w)
           called == [Op("get_image", g, 0) EXCEPT !.inputs = <<res_h, res_w>>]
       IN  /\ config' = new_config
           /\ IF ~recalculate
              THEN /\ last_op' = [called EXCEPT !.done = FALSE, !.result = image[g]]
                   /\ UNCHANGED <<outputs, image, pixel_inputs>>
              ELSE /\ pixel_inputs' = <<c.tensor>>
                   /\ IF c.raised
                      THEN /\ last_op' = [called EXCEPT !.raised = TRUE]
                           /\ UNCHANGED <<outputs, image>>
                      ELSE /\ outputs' = [outputs EXCEPT ![g] = r.outputs]
                           /\ last_op' =
                                 [called EXCEPT
                                    !.raised = r.raised,
                                    !.result =
                                       IF r.raised THEN << >>
                                       ELSE <<r.outputs[CHOOSE o \in OutputIds : TRUE][1]>>]
                           /\ image' = IF r.raised THEN image
                                       ELSE [image EXCEPT ![g] =
                                               <<r.outputs[CHOOSE o \in OutputIds : TRUE][1]>>]
    /\ budget' = budget - 1
    /\ UNCHANGED <<population, node_genome, connection_genome, fitness,
                   node_indexer, Node_current_id, files, threads>>

InitInputs ==
    /\ \E w \in InitialWeights, f \in [{1} -> [OutputIds -> {"identity"}]] :
          Constructed({1}, w, f)
    /\ fitness = [g \in Slots |-> 0]
    /\ config = Config({"identity"}, MaxRes, MaxRes)
    /\ budget = MaxInputs

NextInputs ==
    \/ \E g \in Slots : AddNode(g)
    \/ \E g \in Slots : GetImageDataParallel(g)
    \/ \E h \in 1..MaxRes, w \in 1..MaxRes : OverrideSize(h, w)
    \/ \E b \in BOOLEAN : SetInputBias(b)
    \/ \E g \in Slots, force_recalculate \in BOOLEAN,
          override_h \in {<< >>} \cup {<<h>> : h \in 1..MaxRes},
          override_w \in {<< >>} \cup {<<w>> : w \in 1..MaxRes} :
          GetImage(g, force_recalculate, override_h, override_w)

SpecInputs == InitInputs /\ [][NextInputs]_vars

----------------------------------------------------------------------------
(* One genome written to a JSON document and read back *)

InitJson ==
    /\ \E w \in InitialWeights, f \in [{1} -> [OutputIds -> Activations]] :
          Constructed({1}, w, f)
    /\ fitness = [g \in Slots |-> 0]
    /\ config = Config(Activations, MaxRes, MaxRes)
    /\ budget = MaxJson

NextJson ==
    \/ \E g \in Slots : AddNode(g)
    \/ \E g \in Slots : DisableConnection(g)
    \/ \E g \in Slots : ToJson(g)
    \/ \E c \in Slots : FromJson(c)
    \/ \E g \in Slots : GetImageDataParallel(g)

SpecJson == InitJson /\ [][NextJson]_vars

----------------------------------------------------------------------------
(* The population under every mutation operator, mutate and crossover *)

NextPopulation ==
    \/ \E g \in Slots : AddNode(g)
    \/ \E g \in Slots : RemoveNode(g)
    \/ \E g \in Slots : AddConnection(g)
    \/ \E g \in Slots : DisableConnection(g)
    \/ \E g \in Slots : Mutate(g)
    \/ \E a \in Slots, b \in Slots, c \in Slots : Crossover(a, b, c)

SpecPopulation == Init /\ [][NextPopulation]_vars

----------------------------------------------------------------------------
(* One genome mutated with a rates override *)

\* The overrides of the model, as get_mutation_rates returns them: the
\* probabilities of add_node, remove_node, add_connection, disable_connection
\* and mutate_activations lie strictly between 0 and 1 (each step may or may
\* not be applied), mutate_weights is the rate of the configuration, and
\* weight_mutation_max and prob_reenable_connection are scaled down to 0 or
\* left as they are.
Rates ==
    [mutate_weights : {0},
     weight_mutation_max : {0, weight_mutation_max},
     prob_reenable_connection : {0, 1}]

\* mutate(rates) with rates not None: the six probabilities are taken from
\* the override; its weight_mutation_max and prob_reenable_connection are
\* unpacked and not used again
MutateRates(g, rates) ==
    /\ budget > 1
    /\ g \in population
    /\ \E r \in mutate(node_genome[g], connection_genome[g], node_indexer,
                        config.activations, rates.mutate_weights, g) :
          /\ Becomes(g, Genome(r.nodes, r.cxs))
          /\ node_indexer' = r.indexer
    /\ fitness' = [fitness EXCEPT ![g] = 0]
    /\ last_op' = [Op("mutate", g, 0) EXCEPT !.inputs = <<rates>>]
    /\ ImageReset(g)
    /\ budget' = budget - 2
    /\ UNCHANGED <<config, population, elsewhere>>

InitRates ==
    /\ \E w \in InitialWeights, f \in [{1} -> [OutputIds -> {"identity"}]] :
          Constructed({1}, w, f)
    /\ fitness = [g \in Slots |-> 0]
    /\ config = Config({"identity"}, MaxRes, MaxRes)
    /\ budget = MaxRates

NextRates ==
    \/ \E g \in Slots : DisableConnection(g)
    \/ \E g \in Slots, rates \in Rates : MutateRates(g, rates)

SpecRates == InitRates /\ [][NextRates]_vars

----------------------------------------------------------------------------
(* One genome and a clone of it under the structural mutations *)

InitInert ==
    /\ \E w \in InitialWeights, f \in [{1} -> [OutputIds -> {"identity"}]] :
          Constructed({1}, w, f)
    /\ fitness = [g \in Slots |-> 0]
    /\ config = Config({"identity"}, MaxRes, MaxRes)
    /\ budget = MaxInert

\* nodes are added to and removed from the first genome; the clone has
\* connections added and disabled
NextInert ==
    \/ \E g \in {1} : AddNode(g)
    \/ \E g \in {1} : RemoveNode(g)
    \/ \E c \in {2} : Clone(1, c)
    \/ \E g \in {2} : AddConnection(g)
    \/ \E g \in {2} : DisableConnection(g)

SpecInert == InitInert /\ [][NextInert]_vars

----------------------------------------------------------------------------
(* One genome given to the constructor as dictionaries, and the layering *)

HiddenIds == {0, 1}

\* the sets of at most k elements of S
RECURSIVE KSubsets(_, _)
KSubsets(S, k) ==
    IF k = 0 THEN {{}}
    ELSE KSubsets(S, k - 1)
         \cup {x[1] \cup {x[2]} : x \in KSubsets(S, k - 1) \X S}

\* CPPN(config, nodes, connections): the dictionaries are taken as they are
\* given, with any connections between the nodes, cycles included
InitLayering ==
    /\ \E H \in SUBSET HiddenIds :
          LET N == InputIds \cup OutputIds \cup H
          IN  \E E \in KSubsets(N \X N, MaxEdges) :
                 /\ node_genome = [g \in Slots |->
                        IF g # 1 THEN EmptyDict
                        ELSE [n \in N |->
                                 IF n \in InputIds THEN Node("identity", INPUT, 0, 1)
                                 ELSE IF n \in OutputIds
                                      THEN Node("identity", OUTPUT, 2, 1)
                                      ELSE Node("identity", HIDDEN, Sentinel, 1)]]
                 /\ connection_genome = [g \in Slots |->
                        IF g # 1 THEN EmptyDict
                        ELSE [k \in E |-> Connection(max_weight, TRUE, 1)]]
                 /\ outputs = [g \in Slots |->
                        IF g # 1 THEN EmptyDict ELSE [n \in N |-> << >>]]
    /\ population = {1}
    /\ node_indexer = << >>
    /\ last_op = Op("init", 0, 0)
    /\ image = [g \in Slots |-> << >>]
    /\ pixel_inputs = <<[shape |-> <<0, 0, 0>>, at |-> << >>, use_bias |-> FALSE]>>
    /\ Node_current_id = << >>
    /\ files = {}
    /\ threads = [t \in Threads |->
                     [pc |-> "idle", g |-> 0, new_id |-> << >>, received |-> {}]]
    /\ fitness = [g \in Slots |-> 0]
    /\ config = Config({"identity"}, MaxRes, MaxRes)
    /\ budget = MaxLayering

NextLayering == \E g \in Slots : UpdateNodeLayers(g)

SpecLayering == InitLayering /\ [][NextLayering]_vars

----------------------------------------------------------------------------
(* Properties of the genome graph and of the layering *)

Nodes(g) == node_genome[g]

Cxs(g) == connection_genome[g]

\* the operation that produced this state ended with a layering pass on g
LayersComputed(g) ==
    /\ last_op.g = g
    /\ last_op.op \in {"add_node", "remove_node", "crossover", "update_node_layers"}

\* S and every node from which a node of S is reachable along connections
RECURSIVE Ancestors(_, _)
Ancestors(S, connections) ==
    LET P == {k[1] : k \in {c \in connections : c[2] \in S}}
    IN  IF P \subseteq S THEN S ELSE Ancestors(S \cup P, connections)

\* C1: both endpoints of every connection of a genome are nodes of that
\* genome, and after remove_node no connection touches the removed node.
C1_EndpointsPresent ==
    \A g \in population :
        /\ \A k \in DOMAIN Cxs(g) : k[1] \in DOMAIN Nodes(g) /\ k[2] \in DOMAIN Nodes(g)
        /\ (last_op.op = "remove_node" /\ last_op.g = g)
              => \A k \in DOMAIN Cxs(g) : k[1] # last_op.arg /\ k[2] # last_op.arg

\* remove_node has removed a hidden node, created by add_node, together with
\* the connections into it and out of it
C1_Witness ==
    /\ last_op.op = "remove_node"
    /\ last_op.arg \notin DOMAIN Nodes(last_op.g)
    /\ last_op.done
    /\ last_op.arg \notin InputIds \cup OutputIds
    /\ Cardinality(DOMAIN Cxs(last_op.g)) >= 2

\* C2: after update_node_layers every output node, and every hidden node from
\* which an output is reachable, is in the layer sequence of
\* feed_forward_layers and carries the layer >= 1 that pass assigns.
C2_RequiredNodesLayered ==
    \A g \in population :
        LayersComputed(g) =>
            LET layers == feed_forward_layers(Nodes(g), Cxs(g))
                outs == output_nodes(Nodes(g))
                needed == outs \cup (hidden_nodes(Nodes(g))
                                       \cap Ancestors(outs, DOMAIN Cxs(g)))
            IN  \A n \in needed :
                    /\ n \in Layered(layers)
                    /\ Nodes(g)[n].layer = LayerIndexOf(layers, n)
                    /\ Nodes(g)[n].layer >= 1
                    /\ Nodes(g)[n].layer # Sentinel

\* C3: with allow_recurrent false, after update_node_layers every connection
\* (a, b) of the genome has layer(a) < layer(b).
C3_LayersIncreaseAlongConnections ==
    \A g \in population :
        (LayersComputed(g) /\ ~allow_recurrent) =>
            \A k \in DOMAIN Cxs(g) : Nodes(g)[k[1]].layer < Nodes(g)[k[2]].layer

\* C5: after remove_node no enabled connection of the genome fails the
\* validity check under the recomputed layers.
C5_NoEnabledInvalidAfterRemove ==
    \A g \in population :
        (last_op.op = "remove_node" /\ last_op.g = g) =>
            \A k \in enabled_connections(Cxs(g)) : is_valid_connection(Nodes(g), k)

----------------------------------------------------------------------------
(* Properties of evaluation *)

\* C4: add_node with an identity node leaves the function of the genome as it
\* was: at every coordinate, eval returns after add_node what it returned
\* before it.
C4_AddNodePreservesFunction ==
    [][(/\ last_op'.op = "add_node"
        /\ node_genome'[last_op'.g][last_op'.arg].activation = "identity")
       => \A inputs \in Coordinates \X Coordinates :
             LET g == last_op'.g
                 before == eval(node_genome[g], connection_genome[g],
                                outputs[g], inputs)
                 after == eval(node_genome'[g], connection_genome'[g],
                               outputs'[g], inputs)
             IN  /\ after.raised = before.raised
                 /\ \A o \in OutputIds : after.outputs[o] = before.outputs[o]]_vars

\* C6: for every pixel (row, column) of the configured grid the call of eval
\* that get_image_data_serial makes for the pixel returns the value that
\* get_image_data_parallel stores at the pixel, and every input node is given
\* the same coordinate in both.
C6_SerialEqualsParallel ==
    \A g \in population :
        LET res_h == config.res_h
            res_w == config.res_w
            coords == serial_inputs(res_h, res_w)
            serial == get_image_data_serial(Nodes(g), Cxs(g), outputs[g],
                                            res_h, res_w)
            tensor == cached_inputs(pixel_inputs, config).tensor
            parallel == get_image_data_parallel(Nodes(g), Cxs(g), tensor,
                                                res_h, res_w)
            Call(p) == p[2] * res_h + p[1] + 1
        IN  /\ serial.raised = parallel.raised
            /\ \A p \in Pixels(res_h, res_w) :
                  /\ \A n \in InputIds :
                        coords[Call(p)][input_index(n) + 1]
                            = tensor.at[p][input_index(n) + 1]
                  /\ ~parallel.raised =>
                        \A o \in OutputIds :
                            serial.pixels[Call(p)][o][<<0, 0>>]
                                = parallel.outputs[o][1][p]

\* C7: eval leaves in every node that the outputs depend on the activation of
\* the sum, over the enabled connections into the node, of the weight times
\* the output the source has from the same call, and returns the outputs of
\* the output nodes; the genome of two inputs fully connected to one identity
\* output returns 0 at (0, 0).
C7_EvalComputesNetwork ==
    last_op.op = "eval" =>
        LET g == last_op.g
            out == outputs[g]
            used == Ancestors(OutputIds, enabled_connections(Cxs(g)))
        IN  /\ ~last_op.raised
            /\ \A n \in used :
                  IF n \in InputIds
                  THEN out[n] = <<Scalar(last_op.inputs[input_index(n) + 1])>>
                  ELSE /\ \A k \in get_incoming_connections(Cxs(g), n) :
                             out[k[1]] # << >>
                       /\ out[n] = <<activation(Nodes(g)[n].activation,
                                       sum_of_inputs(Scalar(0),
                                           get_incoming_connections(Cxs(g), n),
                                           Cxs(g), out))>>
            /\ (/\ DOMAIN Nodes(g) = InputIds \cup OutputIds
                /\ enabled_connections(Cxs(g)) = InputIds \X OutputIds
                /\ \A o \in OutputIds : Nodes(g)[o].activation = "identity"
                /\ last_op.inputs = <<0, 0>>)
               => \A o \in OutputIds : out[o] = <<Scalar(0)>>

----------------------------------------------------------------------------
(* Properties of crossover *)

\* the parents a genome may take its genes from: the fitter one, either on a tie
Fitter(a, b) ==
    IF fitness[a] > fitness[b] THEN {a}
    ELSE IF fitness[a] < fitness[b] THEN {b}
    ELSE {a, b}

\* C8: the child of crossover has exactly the node keys and the connection
\* keys of the fitter parent (of either parent when the fitness is equal).
C8_ChildKeysOfFitterParent ==
    last_op.op = "crossover" =>
        \E p \in Fitter(last_op.arg, last_op.other) :
            /\ DOMAIN Nodes(last_op.g) = DOMAIN Nodes(p)
            /\ DOMAIN Cxs(last_op.g) = DOMAIN Cxs(p)

\* a crossover whose less fit parent holds a node and a connection that the
\* fitter parent, and the child, do not
C8_Witness ==
    /\ last_op.op = "crossover"
    /\ fitness[last_op.arg] # fitness[last_op.other]
    /\ \E lo \in {last_op.arg, last_op.other} \ Fitter(last_op.arg, last_op.other) :
          /\ DOMAIN Nodes(lo) \ DOMAIN Nodes(last_op.g) # {}
          /\ DOMAIN Cxs(lo) \ DOMAIN Cxs(last_op.g) # {}

\* C9: in the child every connection of both parents has one parent's weight
\* and one parent's enabled flag, every node of both parents one parent's
\* activation and one parent's type, and a gene of one parent alone has that
\* parent's attribute values.
C9_ChildAttributesFromParents ==
    last_op.op = "crossover" =>
        LET c == last_op.g
            a == last_op.arg
            b == last_op.other
        IN  /\ \A k \in DOMAIN Cxs(c) :
                  IF k \in DOMAIN Cxs(a) /\ k \in DOMAIN Cxs(b)
                  THEN /\ Cxs(c)[k].weight \in {Cxs(a)[k].weight, Cxs(b)[k].weight}
                       /\ Cxs(c)[k].enabled \in {Cxs(a)[k].enabled, Cxs(b)[k].enabled}
                  ELSE \E p \in {a, b} :
                          /\ k \in DOMAIN Cxs(p)
                          /\ Cxs(c)[k].weight = Cxs(p)[k].weight
                          /\ Cxs(c)[k].enabled = Cxs(p)[k].enabled
            /\ \A n \in DOMAIN Nodes(c) :
                  IF n \in DOMAIN Nodes(a) /\ n \in DOMAIN Nodes(b)
                  THEN /\ Nodes(c)[n].activation
                             \in {Nodes(a)[n].activation, Nodes(b)[n].activation}
                       /\ Nodes(c)[n].type \in {Nodes(a)[n].type, Nodes(b)[n].type}
                  ELSE \E p \in {a, b} :
                          /\ n \in DOMAIN Nodes(p)
                          /\ Nodes(c)[n].activation = Nodes(p)[n].activation
                          /\ Nodes(c)[n].type = Nodes(p)[n].type

\* a crossover of parents that differ in the weight of a shared connection
\* and in the activation of a shared node, the child taking the weight of one
\* and the activation of the other
C9_Witness ==
    /\ last_op.op = "crossover"
    /\ \E k \in DOMAIN Cxs(last_op.g), n \in DOMAIN Nodes(last_op.g) :
          /\ k \in DOMAIN Cxs(last_op.arg) /\ k \in DOMAIN Cxs(last_op.other)
          /\ n \in DOMAIN Nodes(last_op.arg) /\ n \in DOMAIN Nodes(last_op.other)
          /\ Cxs(last_op.arg)[k].weight # Cxs(last_op.other)[k].weight
          /\ Nodes(last_op.arg)[n].activation # Nodes(last_op.other)[n].activation
          /\ Cxs(last_op.g)[k].weight = Cxs(last_op.arg)[k].weight
          /\ Nodes(last_op.g)[n].activation = Nodes(last_op.other)[n].activation

\* C10: crossover leaves both parents as they were, and an operation on one
\* genome (a mutation of the child among them) changes no gene, weight,
\* enabled flag or layer of any other genome.
C10_OtherGenomesUnchanged ==
    [][\A h \in Slots :
          h # last_op'.g =>
              /\ node_genome'[h] = node_genome[h]
              /\ connection_genome'[h] = connection_genome[h]]_vars

\* the child of a crossover has been mutated in place
C10_Witness ==
    /\ last_op.op \in {"disable_connection", "mutate_weights", "mutate_activations"}
    /\ last_op.g \notin {1, 2}
    /\ \E p \in {1, 2} : \E k \in DOMAIN Cxs(p) :
          /\ k \in DOMAIN Cxs(last_op.g)
          /\ Cxs(p)[k] # [Cxs(last_op.g)[k] EXCEPT !.obj = p]

\* C11: the genetic difference of a genome from itself is 0.
C11_DifferenceFromItselfIsZero ==
    (last_op.op = "genetic_difference" /\ last_op.other = last_op.g) =>
        last_op.result[1].num = 0

C11_Witness ==
    /\ last_op.op = "genetic_difference"
    /\ last_op.other = last_op.g
    /\ hidden_nodes(Nodes(last_op.g)) # {}
    /\ \E k \in DOMAIN Cxs(last_op.g) : ~Cxs(last_op.g)[k].enabled
    /\ last_op.result[1].num = 0

\* C12: the genetic difference of a from b is the genetic difference of b
\* from a.
C12_DifferenceSymmetric ==
    last_op.op = "genetic_difference" =>
        LET a == last_op.g
            b == last_op.other
            ba == genetic_difference(Nodes(b), Cxs(b), Nodes(a), Cxs(a))
        IN  last_op.result[1].num * ba.den = ba.num * last_op.result[1].den

\* the call that last_op' records is one of the three that C13 is about: a
\* remove_node that found no hidden node, an add_node that found no eligible
\* connection, or an add_connection whose 20 attempts were all rejected
FoundNothing(name) ==
    /\ last_op'.op = name
    /\ IF name = "add_connection" THEN last_op'.result = <<"exhausted">>
       ELSE ~last_op'.done

GenomeAsBefore ==
    /\ node_genome' = node_genome
    /\ connection_genome' = connection_genome

\* C13 as stated: a remove_node, add_node or add_connection that finds
\* nothing to do leaves nodes, connections, weights, enabled flags, layers and
\* the cached image as they were.
C13_NothingFoundNothingChanged ==
    [][(\E name \in {"remove_node", "add_node", "add_connection"} :
           FoundNothing(name))
         => (GenomeAsBefore /\ image' = image)]_vars

\* C13 amended: such a call leaves nodes, connections, weights, enabled flags
\* and layers as they were; remove_node and add_node leave the cached image
\* as it was, and add_connection leaves it None.
C13_NothingFoundGenomeUnchanged ==
    [][/\ (FoundNothing("remove_node") \/ FoundNothing("add_node"))
            => (GenomeAsBefore /\ image' = image)
       /\ FoundNothing("add_connection")
            => (GenomeAsBefore /\ image' = [image EXCEPT ![last_op'.g] = << >>])]_vars

C13_Witness ==
    /\ last_op.op = "add_connection"
    /\ last_op.result = <<"exhausted">>
    /\ hidden_nodes(Nodes(last_op.g)) # {}
    /\ outputs[last_op.g][CHOOSE o \in OutputIds : TRUE] # << >>
    /\ image[last_op.g] = << >>

\* every ordered pair of distinct nodes is a connection of the genome or is
\* rejected by is_valid_connection
Saturated(nodes, cxs) ==
    \A p \in (DOMAIN nodes) \X (DOMAIN nodes) :
        p[1] # p[2] => (p \in DOMAIN cxs \/ ~is_valid_connection(nodes, p))

\* C14: add_connection on a genome in which every ordered pair of distinct
\* nodes is already a connection or is rejected by the validity check leaves
\* the number of connections as it was.
C14_SaturatedKeepsConnectionCount ==
    [][(/\ last_op'.op = "add_connection"
        /\ Saturated(node_genome[last_op'.g], connection_genome[last_op'.g]))
         => Cardinality(DOMAIN connection_genome'[last_op'.g])
                = Cardinality(DOMAIN connection_genome[last_op'.g])]_vars

C14_Witness ==
    /\ last_op.op = "add_connection"
    /\ ~last_op.done
    /\ hidden_nodes(Nodes(last_op.g)) # {}
    /\ Cardinality(DOMAIN Cxs(last_op.g)) > 4
    /\ Saturated(Nodes(last_op.g), Cxs(last_op.g))

\* the mutations of a genome that C15 names
Mutations ==
    {"add_node", "remove_node", "add_connection", "disable_connection",
     "mutate_weights", "mutate_activations", "mutate"}

\* the image that whole-grid evaluation of genome g gives in this state
ImageOf(g) ==
    get_image_data_parallel(Nodes(g), Cxs(g),
                            cached_inputs(pixel_inputs, config).tensor,
                            config.res_h, config.res_w
                           ).outputs[CHOOSE o \in OutputIds : TRUE][1]

\* C15: a mutation that changes the nodes or connections of a genome leaves
\* the genome's cached image None, and in every state a cached image that is
\* not None is the image of the genome as it is now.
C15_CachedImageIsCurrent ==
    /\ [][(/\ last_op'.op \in Mutations
           /\ \/ node_genome'[last_op'.g] # node_genome[last_op'.g]
              \/ connection_genome'[last_op'.g] # connection_genome[last_op'.g])
            => image'[last_op'.g] = << >>]_vars
    /\ [](\A g \in population : image[g] # << >> => image[g] = <<ImageOf(g)>>)

C15_Witness ==
    /\ last_op.op = "mutate"
    /\ outputs[last_op.g][CHOOSE o \in OutputIds : TRUE] # << >>
    /\ hidden_nodes(Nodes(last_op.g)) # {}
    /\ \E k \in DOMAIN Cxs(last_op.g) : ~Cxs(last_op.g)[k].enabled
    /\ image[last_op.g] = << >>

\* C16: after the construction of an EvolutionaryAlgorithm the next hidden id
\* that get_new_node_id issues, to whichever genome asks, is num_inputs +
\* num_outputs.
C16_RunStartsAtNumInputsPlusOutputs ==
    last_op.op = "EvolutionaryAlgorithm" =>
        \A g \in population :
            get_new_node_id(Nodes(g), node_indexer)[1] = num_inputs + num_outputs

\* C17: the id that get_new_node_id issues to add_node is not a node key of
\* the calling genome (the assertion holds) nor of any other live genome.
C17_IssuedIdIsNew ==
    last_op.op = "add_node" =>
        /\ ~last_op.raised
        /\ last_op.done =>
              \A h \in population \ {last_op.g} : last_op.arg \notin DOMAIN Nodes(h)

\* C18: two threads that call get_new_node_id on different genomes never
\* receive the same id, whether or not the counter was initialised before.
C18_ThreadsReceiveDistinctIds ==
    \A t \in Threads, u \in Threads :
        t # u => threads[t].received \cap threads[u].received = {}

\* C19: when get_image_data_parallel has evaluated the grid, the tensor
\* CPPN.pixel_inputs that it read has the configured height and width and was
\* generated with the configured bias feature.
C19_InputsGeneratedForConfiguration ==
    (last_op.op = "get_image_data_parallel" /\ ~last_op.raised) =>
        /\ pixel_inputs # << >>
        /\ pixel_inputs[1].shape[1] = config.res_h
        /\ pixel_inputs[1].shape[2] = config.res_w
        /\ pixel_inputs[1].use_bias = config.use_input_bias

\* what get_image_data_parallel gives for a genome on the input tensor:
\* whether it raises and, if not, the image
GridEvaluation(nodes, cxs, tensor) ==
    IF ~Callable(nodes) THEN [raised |-> TRUE, image |-> << >>]
    ELSE LET r == get_image_data_parallel(nodes, cxs, tensor,
                                          config.res_h, config.res_w)
         IN  [raised |-> r.raised,
              image |-> IF r.raised THEN << >>
                        ELSE r.outputs[CHOOSE o \in OutputIds : TRUE]]

\* C20: for a genome g with activation functions, the genome that from_json
\* makes of the document to_json(g) has the node ids, types and activation
\* functions and the connection keys, weights and enabled flags that g had
\* when to_json was called, and its grid evaluation is that of g.
C20_RoundTripPreservesGenome ==
    [][(last_op'.op = "to_json" /\ Callable(node_genome[last_op'.g])) =>
          LET g == last_op'.g
              c == CHOOSE x \in Slots : x # g
              r == from_json(last_op'.result[1], c)
              generated == initialize_inputs(config.res_h, config.res_w,
                                             config.use_input_bias, n_inputs)
          IN  /\ DOMAIN r.nodes = DOMAIN node_genome[g]
              /\ \A n \in DOMAIN node_genome[g] :
                    /\ r.nodes[n].type = node_genome[g][n].type
                    /\ r.nodes[n].activation = node_genome[g][n].activation
              /\ DOMAIN r.cxs = DOMAIN connection_genome[g]
              /\ \A k \in DOMAIN connection_genome[g] :
                    /\ r.cxs[k].weight = connection_genome[g][k].weight
                    /\ r.cxs[k].enabled = connection_genome[g][k].enabled
              /\ GridEvaluation(r.nodes, r.cxs, generated.tensor)
                    = GridEvaluation(node_genome[g], connection_genome[g],
                                     cached_inputs(pixel_inputs, config).tensor)]_vars

C20_Witness ==
    /\ last_op.op = "from_json"
    /\ ~last_op.raised
    /\ \E n \in hidden_nodes(Nodes(last_op.g)) : Nodes(last_op.g)[n].activation = "abs"
    /\ \E k \in DOMAIN Cxs(last_op.g) : ~Cxs(last_op.g)[k].enabled
    /\ \E k \in DOMAIN Cxs(last_op.g) : Cxs(last_op.g)[k].weight < 0
    /\ last_op.result[1].id \in population \ {last_op.g}

----------------------------------------------------------------------------
(* Properties of construction, layering and the remaining operators *)

AsConstructed(g, output_layer) ==
    /\ DOMAIN Nodes(g) = InputIds \cup OutputIds
    /\ DOMAIN Cxs(g) = InputIds \X OutputIds
    /\ \A k \in DOMAIN Cxs(g) : Cxs(g)[k].enabled
    /\ \A n \in OutputIds : Nodes(g)[n].layer = output_layer

\* C21: a genome constructed with 2 inputs, 1 output, no hidden nodes and
\* init_connection_probability 1.0 holds exactly the connections
\* input0->output and input1->output, both enabled, and its output node's
\* layer is 1
C21_ConstructedOutputLayerOne ==
    last_op.op = "init" => \A g \in population : AsConstructed(g, 1)

\* C21 (amended): as above, with the output node's layer 2
C21_ConstructedOutputLayerTwo ==
    last_op.op = "init" => \A g \in population : AsConstructed(g, 2)

C21_Witness ==
    /\ last_op.op = "init"
    /\ \E g \in population :
          /\ Cardinality(DOMAIN Cxs(g)) = 2
          /\ hidden_nodes(Nodes(g)) = {}

\* C22: on every genome, cycles included, required_for_output and
\* feed_forward_layers each return after at most as many loop iterations as
\* the genome has nodes
C22_LayeringLoopsReturn ==
    \A g \in population :
        LET inputs == input_nodes(Nodes(g))
            outs == output_nodes(Nodes(g))
            connections == get_ids_connections(Cxs(g))
            n == Cardinality(DOMAIN Nodes(g))
        IN  /\ required_iterations(inputs, connections, outs, n + 1) <= n
            /\ layers_iterations(connections,
                                 required_for_output(inputs, outs, connections),
                                 inputs, n + 1) <= n

\* a cycle through a hidden node that feeds the output has been layered
C22_Witness ==
    /\ last_op.op = "update_node_layers"
    /\ \E h \in hidden_nodes(Nodes(1)) :
          /\ {<<h, h>>, <<h, -3>>} \subseteq DOMAIN Cxs(1)
          /\ \E i \in InputIds : <<i, h>> \in DOMAIN Cxs(1)

\* C23: update_node_layers called a second time, with no mutation since the
\* first call, leaves every node's layer as the first call left it
C23_LayeringIdempotent ==
    [][(/\ last_op.op = "update_node_layers"
        /\ last_op'.op = "update_node_layers"
        /\ last_op'.g = last_op.g)
       => \A n \in DOMAIN Nodes(last_op.g) :
             node_genome'[last_op.g][n].layer = Nodes(last_op.g)[n].layer]_vars

\* the second call has returned on a genome in which a hidden node is left
\* out of the layers
C23_Witness ==
    /\ last_op.op = "update_node_layers"
    /\ budget = MaxLayering - 2
    /\ \E h \in hidden_nodes(Nodes(1)) :
          h \notin Layered(feed_forward_layers(Nodes(1), Cxs(1)))
    /\ Layered(feed_forward_layers(Nodes(1), Cxs(1))) # {}

\* C24: under remove_node, add_node, add_connection, disable_connection,
\* mutate and crossover, the INPUT node ids and the OUTPUT node ids of every
\* genome are those created at construction, and a call deletes at most one
\* node, which is HIDDEN
C24_InputsAndOutputsStay ==
    /\ [](\A g \in population :
             /\ input_nodes(Nodes(g)) = InputIds
             /\ output_nodes(Nodes(g)) = OutputIds)
    /\ [][\A g \in population :
             LET removed == DOMAIN Nodes(g) \ DOMAIN node_genome'[g]
             IN  /\ Cardinality(removed) <= 1
                 /\ \A n \in removed : Nodes(g)[n].type = HIDDEN]_vars

\* remove_node has deleted the only hidden node of a genome
C24_Witness ==
    /\ last_op.op = "remove_node"
    /\ last_op.done
    /\ last_op.arg >= 0
    /\ DOMAIN Nodes(last_op.g) = InputIds \cup OutputIds

\* C26: with allow_recurrent false, the connections of a genome, enabled and
\* disabled, form no cycle in any state reached by add_node, remove_node,
\* add_connection and disable_connection
C26_ConnectionsAcyclic ==
    \A g \in population :
        \A k \in DOMAIN Cxs(g) :
            k[2] \notin Ancestors({k[1]}, DOMAIN Cxs(g))

\* C27: in genetic_difference(A, B) every enabled connection of A whose key
\* is not the key of an enabled connection of B is counted exactly once, as
\* excess or as disjoint, so excess + disjoint is the number of A's unmatched
\* enabled connections, also when B has no enabled connection
C27_UnmatchedCountedOnce ==
    \A a \in population, b \in population :
        LET this_cxs == enabled_connections(Cxs(a))
            other_innovation == enabled_connections(Cxs(b))
            excess == get_excess_connections(this_cxs, other_innovation)
            disjoint == get_disjoint_connections(this_cxs, other_innovation)
        IN  /\ excess \cap disjoint = {}
            /\ Cardinality(excess) + Cardinality(disjoint)
                   = Cardinality(this_cxs \ other_innovation)

\* C30: after to_json returns, the genome it was called on still has
\* callable node activations, its node types and connection weights are
\* unchanged, and its grid evaluation is the one it had before the call
C30_ToJsonLeavesGenomeIntact ==
    [][(last_op'.op = "to_json" /\ Callable(node_genome[last_op'.g])) =>
          LET g == last_op'.g
              generated == initialize_inputs(config.res_h, config.res_w,
                                             config.use_input_bias, n_inputs)
          IN  /\ Callable(node_genome'[g])
              /\ \A n \in DOMAIN node_genome[g] :
                    node_genome'[g][n].type = node_genome[g][n].type
              /\ \A k \in DOMAIN connection_genome[g] :
                    connection_genome'[g][k].weight = connection_genome[g][k].weight
              /\ GridEvaluation(node_genome'[g], connection_genome'[g],
                                generated.tensor)
                    = GridEvaluation(node_genome[g], connection_genome[g],
                                     cached_inputs(pixel_inputs, config).tensor)]_vars

\* C29: the image get_image returns has the height and width configured
\* when it returns, also when the resolution was changed while an image of
\* another resolution is cached
C29_ImageHasConfiguredResolution ==
    [][(last_op'.op = "get_image" /\ last_op'.result # << >>)
         => shape(last_op'.result[1]) = <<config'.res_h, config'.res_w>>]_vars

\* C28: in a call of mutate with a rates override the rates applied are the
\* override's; in particular a call whose override has
\* prob_reenable_connection = 0 re-enables no connection
C28_OverrideRatesApplied ==
    [][(/\ last_op'.op = "mutate"
        /\ last_op'.inputs # << >>
        /\ last_op'.inputs[1].prob_reenable_connection = 0)
       => LET g == last_op'.g
          IN  \A k \in DOMAIN Cxs(g) \cap DOMAIN connection_genome'[g] :
                 connection_genome'[g][k].enabled => Cxs(g)[k].enabled]_vars

\* the enabled connections of a genome with their weights
EnabledPart(g) ==
    [k \in enabled_connections(Cxs(g)) |-> Cxs(g)[k].weight]

\* C25: two genomes with the same nodes and the same enabled connections,
\* which differ at most in the disabled connections they hold, have the
\* same grid evaluation
C25_DisabledConnectionsInert ==
    \A a \in population, b \in population :
        (/\ DOMAIN Nodes(a) = DOMAIN Nodes(b)
         /\ \A n \in DOMAIN Nodes(a) :
               /\ Nodes(a)[n].type = Nodes(b)[n].type
               /\ Nodes(a)[n].activation = Nodes(b)[n].activation
         /\ EnabledPart(a) = EnabledPart(b))
        => LET tensor == cached_inputs(pixel_inputs, config).tensor
           IN  GridEvaluation(Nodes(a), Cxs(a), tensor)
                  = GridEvaluation(Nodes(b), Cxs(b), tensor)

====
